---- MODULE Spec2Model ----
(***************************************************************************)
(* A model of two parts of autocxx:                                        *)
(*   Part I   src/src/rvalue_param.rs: RValueParamHandler, the run-time    *)
(*            object that passes a value to C++ by rvalue (move).          *)
(*   Part II  src/engine/src/bridge_converter.rs: BridgeConverter, which   *)
(*            rewrites bindgen output into cxx::bridge input.              *)
(***************************************************************************)
EXTENDS Integers, Sequences, FiniteSets, TLC

(***************************************************************************)
(* Part I.  RValueParamHandler<T, UniquePtr<T>>                            *)
(***************************************************************************)

VARIABLES
    space,      \* RValueParamHandler.space: Option<UniquePtr<T>>; <<>> is None, <<u>> is Some(u)
    hstate,     \* "alive", "unwinding" (a panic is propagating), "dropped"
    heap,       \* owner of each C++ object a UniquePtr points to: "caller", "handler", "freed"
    loc,        \* the address the handler itself currently lives at
    cleanups,   \* number of calls of RValueParam::do_drop so far
    log         \* the operations performed on the handler so far, in order

\* The variables of Part II, described there.
VARIABLES
    bindings,           \* the ItemMod given to convert: [content |-> Option(items)]
    pod_requests,       \* BridgeConverter.pod_requests: Vec<TypeName>
    exclude_utilities,  \* the flag given to convert
    conv,               \* the BridgeConversion: a record of its fields
    pc,                 \* where the run is: "start", "items", "walk", "done"; "idle" when none is run
    outer,              \* convert_items: the outer items still to visit
    root_out,           \* convert_items: bindgen_root_items
    calls,              \* the calls of find_nested_pod_types / convert_mod_items /
                        \* convert_foreign_mod_items in progress, innermost first
    result              \* what convert returned: None until it returns

bvars == <<bindings, pod_requests, exclude_utilities, conv, pc, outer, root_out, calls, result>>
vars == <<space, hstate, heap, loc, cleanups, log,
          bindings, pod_requests, exclude_utilities, conv, pc, outer, root_out, calls, result>>
hvars == <<space, hstate, heap, loc, cleanups, log>>

\* Number of distinct non-null UniquePtr values the caller owns.
NumValues == 2
\* Number of distinct addresses the handler may live at.
NumLocs == 2
\* Number of populate / get_ptr / relocate operations in one run.
MaxOps == 5

NULL == 0
Addrs == 1..NumValues
Locs == (NumValues + 1)..(NumValues + NumLocs)

\* A cxx::UniquePtr<T>: the address of the T it owns, or NULL.
UniquePtrs == [ptr : Addrs \cup {NULL}]

\* Option<T> as a sequence of length 0 or 1.
None == <<>>
Some(x) == <<x>>

MinOf(S) == CHOOSE x \in S : \A y \in S : x <= y
MaxOf(S) == CHOOSE x \in S : \A y \in S : y <= x

\* What a call that yields *mut T gives the caller: a pointer, or a panic.
Returned(p) == [panic |-> FALSE, ptr |-> p]
Panicked == [panic |-> TRUE, ptr |-> NULL]

\* impl Default for RValueParamHandler
Handler_default == None

\* Mutant: the value is consumed but never written to the stack space.
populate_stack_space_Lost(self, stack) == stack

\* <UniquePtr<T> as RValueParam<T>>::populate_stack_space: *stack = Some(self)
populate_stack_space(self, stack) == Some(self)

\* Mutant: the address of the pinned storage is returned, not that of the T.
UniquePtr_get_ptr_Slot(stack) ==
    IF stack.val.ptr = NULL THEN Panicked ELSE Returned(stack.at)

\* Mutant: the NULL check (expect) is missing.
UniquePtr_get_ptr_NoExpect(stack) == Returned(stack.val.ptr)

\* <UniquePtr<T> as RValueParam<T>>::get_ptr. stack is the pinned &mut UniquePtr<T>:
\* at is where the UniquePtr is stored, val is the UniquePtr.
UniquePtr_get_ptr(stack) ==
    IF stack.val.ptr = NULL THEN Panicked ELSE Returned(stack.val.ptr)

\* Mutant: an unchecked unwrap that hands out NULL for an unpopulated handler.
Handler_get_ptr_Unchecked(sp, at) ==
    IF sp = None THEN Returned(NULL) ELSE UniquePtr_get_ptr([at |-> at, val |-> sp[1]])

\* RValueParamHandler::get_ptr: RVP::get_ptr(self.space.as_mut().unwrap())
Handler_get_ptr(sp, at) ==
    IF sp = None THEN Panicked ELSE UniquePtr_get_ptr([at |-> at, val |-> sp[1]])

\* Dropping an Option<UniquePtr<T>>: the C++ object it owns, if any, is deleted.
ReleaseOption(h, sp) ==
    IF sp # None /\ sp[1].ptr # NULL THEN [h EXCEPT ![sp[1].ptr] = "freed"] ELSE h

\* Mutant: a second populate is silently ignored.
Populate_KeepFirst(v) ==
    /\ hstate = "alive"
    /\ Len(log) < MaxOps
    /\ v.ptr # NULL => heap[v.ptr] = "caller"
    /\ IF space = None
         THEN /\ space' = populate_stack_space(v, space)
              /\ heap' = IF v.ptr = NULL THEN heap ELSE [heap EXCEPT ![v.ptr] = "handler"]
         ELSE /\ space' = space
              /\ heap' = IF v.ptr = NULL THEN heap ELSE [heap EXCEPT ![v.ptr] = "freed"]
    /\ log' = Append(log, [op |-> "populate", arg |-> v, ret |-> Panicked, live |-> FALSE, at |-> loc])
    /\ UNCHANGED <<hstate, loc, cleanups>>
    /\ UNCHANGED bvars

\* RValueParamHandler::populate(param): param is an owned UniquePtr of the caller.
\* The assignment to *stack drops the Option that was stored there before.
Populate(v) ==
    /\ hstate = "alive"
    /\ Len(log) < MaxOps
    /\ v.ptr # NULL => heap[v.ptr] = "caller"
    /\ space' = populate_stack_space(v, space)
    /\ heap' = LET released == ReleaseOption(heap, space)
               IN  IF v.ptr = NULL THEN released ELSE [released EXCEPT ![v.ptr] = "handler"]
    /\ log' = Append(log, [op |-> "populate", arg |-> v, ret |-> Panicked, live |-> FALSE, at |-> loc])
    /\ UNCHANGED <<hstate, loc, cleanups>>
    /\ UNCHANGED bvars

\* RValueParamHandler::get_ptr(): a panic starts unwinding the caller's frame.
GetPtr ==
    /\ hstate = "alive"
    /\ Len(log) < MaxOps
    /\ LET r == Handler_get_ptr(space, loc)
       IN  /\ hstate' = IF r.panic THEN "unwinding" ELSE "alive"
           /\ log' = Append(log, [op |-> "get_ptr", arg |-> [ptr |-> NULL], ret |-> r,
                                  live |-> (~r.panic /\ r.ptr \in Addrs /\ heap[r.ptr] = "handler"),
                                  at |-> loc])
    /\ UNCHANGED <<space, heap, loc, cleanups>>
    /\ UNCHANGED bvars

\* The caller moves the handler to another place (a Rust move is a bitwise copy):
\* what populate's safety contract forbids, and what nothing checks.
Relocate ==
    /\ hstate = "alive"
    /\ Len(log) < MaxOps
    /\ \E l \in Locs \ {loc} :
          /\ loc' = l
          /\ log' = Append(log, [op |-> "relocate", arg |-> [ptr |-> NULL], ret |-> Panicked,
                                 live |-> FALSE, at |-> l])
    /\ UNCHANGED <<space, hstate, heap, cleanups>>
    /\ UNCHANGED bvars

\* Mutant: the cleanup step runs whether or not the handler was populated.
Drop_Always ==
    /\ hstate \in {"alive", "unwinding"}
    /\ cleanups' = cleanups + 1
    /\ heap' = ReleaseOption(heap, space)
    /\ hstate' = "dropped"
    /\ log' = Append(log, [op |-> "drop", arg |-> [ptr |-> NULL], ret |-> Panicked,
                           live |-> FALSE, at |-> loc])
    /\ UNCHANGED <<space, loc>>
    /\ UNCHANGED bvars

\* impl Drop for RValueParamHandler: do_drop if populated (a no-op for UniquePtr),
\* after which the field space is dropped. Runs at scope exit and while unwinding.
Drop ==
    /\ hstate \in {"alive", "unwinding"}
    /\ cleanups' = IF space # None THEN cleanups + 1 ELSE cleanups
    /\ heap' = ReleaseOption(heap, space)
    /\ hstate' = "dropped"
    /\ log' = Append(log, [op |-> "drop", arg |-> [ptr |-> NULL], ret |-> Panicked,
                           live |-> FALSE, at |-> loc])
    /\ UNCHANGED <<space, loc>>
    /\ UNCHANGED bvars

(***************************************************************************)
(* Part II.  BridgeConverter / BridgeConversion                            *)
(*                                                                         *)
(* An identifier or a string is the sequence of its characters; a syn      *)
(* syntax tree node is a record with the fields the converter reads.       *)
(***************************************************************************)

RECURSIVE Join(_, _)
\* The strings of a sequence joined with a separator (Vec<String>::join, Display).
Join(strs, sep) ==
    IF strs = <<>> THEN <<>>
    ELSE IF Len(strs) = 1 THEN strs[1]
    ELSE strs[1] \o sep \o Join(Tail(strs), sep)

\* str::starts_with
StartsWith(s, prefix) ==
    Len(prefix) <= Len(s) /\ SubSeq(s, 1, Len(prefix)) = prefix

Last(s) == s[Len(s)]
ButLast(s) == SubSeq(s, 1, Len(s) - 1)

\* Identifiers the converter knows by name.
id_root == <<"r", "o", "o", "t">>
id_this == <<"t", "h", "i", "s">>
id_self == <<"s", "e", "l", "f">>
id_new == <<"n", "e", "w">>
id_make_unique == <<"m", "a", "k", "e", "_", "u", "n", "i", "q", "u", "e">>
id_make_string == <<"m", "a", "k", "e", "_", "s", "t", "r", "i", "n", "g">>
id_autocxx_gen_this ==
    <<"a", "u", "t", "o", "c", "x", "x", "_", "g", "e", "n", "_", "t", "h", "i", "s">>
id_UniquePtr == <<"U", "n", "i", "q", "u", "e", "P", "t", "r">>
id_CxxString == <<"C", "x", "x", "S", "t", "r", "i", "n", "g">>
id_std == <<"s", "t", "d">>
id_string == <<"s", "t", "r", "i", "n", "g">>
id_str == <<"s", "t", "r">>
id_rust_Str == <<"r", "u", "s", "t", "_", "S", "t", "r">>
id_c_int == <<"c", "_", "i", "n", "t">>
id_super == <<"s", "u", "p", "e", "r">>
id_bindgen == <<"b", "i", "n", "d", "g", "e", "n">>
id_cxxbridge == <<"c", "x", "x", "b", "r", "i", "d", "g", "e">>
id_cxx == <<"c", "x", "x">>
str_up_wrapper == <<"_", "u", "p", "_", "w", "r", "a", "p", "p", "e", "r">>
str_destructor == <<"_", "d", "e", "s", "t", "r", "u", "c", "t", "o", "r">>
str_underscore == <<"_">>
str_colons == <<":", ":">>
str_autocxxgen_h == <<"a", "u", "t", "o", "c", "x", "x", "g", "e", "n", ".", "h">>

\* syn::Type. A path is a sequence of segments, each an identifier with its
\* generic arguments (a sequence of types, empty for no arguments).
Seg(id) == [ident |-> id, args |-> <<>>]
SegArgs(id, as) == [ident |-> id, args |-> as]
PathT(segs) == [k |-> "Path", segs |-> segs]
PtrT(m, e) == [k |-> "Ptr", mut |-> m, elem |-> <<e>>]
RefT(m, e) == [k |-> "Reference", mut |-> m, elem |-> <<e>>]
\* Any other syn::Type (an array, a tuple, ...).
OtherT == [k |-> "Other"]
\* The path of plain identifiers ids.
Plain(ids) == PathT([i \in 1..Len(ids) |-> Seg(ids[i])])

\* types::Namespace: the sequence of its segments; the root namespace is empty.
Namespace_new == <<>>
Namespace_push(ns, segment) == Append(ns, segment)
Namespace_to_string(ns) == Join(ns, str_colons)

\* types::TypeName: a namespace and an identifier.
TypeName_new(ns, id) == [ns |-> ns, id |-> id]
\* TypeName::from_cxx_type_path: all segments but the last are the namespace.
TypeName_from_cxx_type_path(p) ==
    LET ids == [i \in 1..Len(p.segs) |-> p.segs[i].ident]
    IN  [ns |-> ButLast(ids), id |-> Last(ids)]
\* TypeName::from_bindgen_type_path: as above, a leading root segment left out.
TypeName_from_bindgen_type_path(p) ==
    LET ids == [i \in 1..Len(p.segs) |-> p.segs[i].ident]
        rel == IF ids[1] = id_root /\ Len(ids) > 1 THEN Tail(ids) ELSE ids
    IN  [ns |-> ButLast(rel), id |-> Last(rel)]
\* TypeName::to_cxx_type_path
TypeName_to_cxx_type_path(tn) == Plain(Append(tn.ns, tn.id))
\* TypeName::to_cpp_name: the C++ spelling, a::b::T
TypeName_to_cpp_name(tn) == Join(Append(tn.ns, tn.id), str_colons)
\* TypeName::to_string as used to build an identifier: segments joined by "_".
TypeName_to_string(tn) == Join(Append(tn.ns, tn.id), str_underscore)

\* type_to_typename
type_to_typename(ty) ==
    IF ty.k = "Path" THEN Some(TypeName_from_bindgen_type_path(ty)) ELSE None

(***************************************************************************)
(* byvalue_checker::ByValueChecker, the classification engine              *)
(***************************************************************************)

\* What the checker records of a type.
PodEntry == [state |-> "pod", target |-> <<>>, fields |-> <<>>]
NonPodEntry == [state |-> "nonpod", target |-> <<>>, fields |-> <<>>]
AliasEntry(tn) == [state |-> "alias", target |-> <<tn>>, fields |-> <<>>]
StructEntry(fs) == [state |-> "struct", target |-> <<>>, fields |-> fs]

\* ByValueChecker::new: the types known beforehand.
ByValueChecker_new ==
    (TypeName_new(<<>>, id_c_int) :> PodEntry)
        @@ (TypeName_new(<<>>, id_UniquePtr) :> PodEntry)
        @@ (TypeName_new(<<>>, id_CxxString) :> NonPodEntry)

Record(checker, name, entry) == (name :> entry) @@ checker

\* ByValueChecker::ingest_struct: the types of the fields are recorded.
ingest_struct(checker, s, ns) ==
    Record(checker, TypeName_new(ns, s.ident), StructEntry(s.fields))
\* ByValueChecker::ingest_pod_type
ingest_pod_type(checker, name) == Record(checker, name, PodEntry)
\* ByValueChecker::ingest_nonpod_type
ingest_nonpod_type(checker, name) == Record(checker, name, NonPodEntry)
\* ByValueChecker::ingest_simple_typedef
ingest_simple_typedef(checker, name, tn) == Record(checker, name, AliasEntry(tn))

RECURSIVE Classify(_, _, _)
\* Whether name is Trivial: an enum or known plain type, a struct all of whose
\* fields are by-value Trivial types, or an alias of a Trivial type. A type never
\* recorded, a pointer or reference field, and a cycle (a type met again while
\* being resolved: visiting) are Opaque.
Classify(checker, name, visiting) ==
    IF name \notin DOMAIN checker \/ name \in visiting THEN FALSE
    ELSE LET e == checker[name]
             seen == visiting \cup {name}
         IN  CASE e.state = "pod" -> TRUE
               [] e.state = "nonpod" -> FALSE
               [] e.state = "alias" -> Classify(checker, e.target[1], seen)
               [] e.state = "struct" ->
                    \A i \in 1..Len(e.fields) :
                        /\ e.fields[i].k = "Path"
                        /\ Classify(checker,
                                    TypeName_from_bindgen_type_path(e.fields[i]), seen)

\* ByValueChecker::is_pod
is_pod(checker, name) == Classify(checker, name, {})

\* ByValueChecker::satisfy_requests: the first requested type that is not
\* Trivial is the error; None if there is none.
satisfy_requests(checker, requests) ==
    LET bad == {i \in 1..Len(requests) : ~is_pod(checker, requests[i])}
    IN  IF bad = {} THEN None ELSE Some(requests[MinOf(bad)])

(***************************************************************************)
(* Typedefs and the conversion of types                                    *)
(***************************************************************************)

\* enum TypedefTarget
NoArguments(tn) == [t |-> "NoArguments", tn |-> <<tn>>]
HasArguments == [t |-> "HasArguments", tn |-> <<>>]
SomethingComplex == [t |-> "SomethingComplex", tn |-> <<>>]

\* BridgeConversion::should_ignore_item_type: the alias has generic parameters.
should_ignore_item_type(ity) == ity.generics

\* BridgeConversion::analyze_typedef_target
analyze_typedef_target(ty) ==
    IF ty.k = "Path"
    THEN IF Last(ty.segs).args = <<>>
         THEN NoArguments(TypeName_from_bindgen_type_path(ty))
         ELSE HasArguments
    ELSE SomethingComplex

\* known_types::replace_type_path_without_arguments: a well-known C++ spelling is
\* replaced by its cxx name; the path arguments are dropped either way.
replace_type_path_without_arguments(typ) ==
    LET ids == [i \in 1..Len(typ.segs) |-> typ.segs[i].ident]
    IN  IF ids = <<id_std, id_string>> THEN Plain(<<id_CxxString>>) ELSE Plain(ids)

\* known_types::should_dereference_in_cpp: the type is rust_Str.
should_dereference_in_cpp(typ) ==
    Len(typ.segs) = 1 /\ typ.segs[1].ident = id_rust_Str

RECURSIVE resolve_typedef(_, _, _)
\* BridgeConversion::resolve_typedef. The outcome is None, Some(tn), a panic (the
\* chain reaches a typedef that is not a plain alias) or a stack overflow (the
\* chain returns to a typedef being resolved: visiting; the code recurses on).
resolve_typedef(typedefs, tn, visiting) ==
    IF tn \notin DOMAIN typedefs THEN [o |-> "None", tn |-> <<>>]
    ELSE IF typedefs[tn].t # "NoArguments" THEN [o |-> "Panic", tn |-> <<>>]
    ELSE IF tn \in visiting THEN [o |-> "Overflow", tn |-> <<>>]
    ELSE LET original_tn == typedefs[tn].tn[1]
             further == resolve_typedef(typedefs, original_tn, visiting \cup {tn})
         IN  IF further.o = "None" THEN [o |-> "Some", tn |-> <<original_tn>>]
             ELSE further

\* The first failure of a sequence of outcomes ("" is success).
FirstFailure(outcomes) ==
    LET bad == {i \in 1..Len(outcomes) : outcomes[i] # ""}
    IN  IF bad = {} THEN "" ELSE outcomes[MinOf(bad)]

\* BridgeConversion::replace_cpp_with_cxx, how it fails: "" if it does not.
replace_cpp_with_cxx_failure(typedefs, typ) ==
    IF \E i \in 1..(Len(typ.segs) - 1) : typ.segs[i].args # <<>> THEN "Panic"
    ELSE LET r == resolve_typedef(typedefs, TypeName_from_cxx_type_path(typ), {})
         IN  IF r.o \in {"Panic", "Overflow"} THEN r.o ELSE ""

\* BridgeConversion::replace_cpp_with_cxx
replace_cpp_with_cxx(typedefs, typ) ==
    LET last_seg_args == Last(typ.segs).args
        r == resolve_typedef(typedefs, TypeName_from_cxx_type_path(typ), {})
        typ2 == IF r.o = "Some" THEN TypeName_to_cxx_type_path(r.tn[1]) ELSE typ
        typ3 == replace_type_path_without_arguments(typ2)
    IN  IF last_seg_args = <<>> THEN typ3
        ELSE PathT([typ3.segs EXCEPT ![Len(typ3.segs)] =
                        SegArgs(typ3.segs[Len(typ3.segs)].ident, last_seg_args)])

RECURSIVE convert_type_failure(_, _)
\* BridgeConversion::convert_type, how it fails: "" if it does not.
convert_type_failure(typedefs, ty) ==
    CASE ty.k = "Path" ->
           LET rooted == ty.segs[1].ident = id_root
               segs == IF rooted THEN Tail(ty.segs) ELSE ty.segs
               in_args == [i \in 1..Len(segs) |->
                              FirstFailure([j \in 1..Len(segs[i].args) |->
                                  convert_type_failure(typedefs, segs[i].args[j])])]
           IN  IF rooted /\ FirstFailure(in_args) # "" THEN FirstFailure(in_args)
               ELSE replace_cpp_with_cxx_failure(typedefs, PathT(segs))
      [] ty.k \in {"Reference", "Ptr"} -> convert_type_failure(typedefs, ty.elem[1])
      [] OTHER -> ""

RECURSIVE convert_type_Const(_, _)
\* Mutant: a pointer becomes a shared reference whatever its mutability.
convert_type_Const(typedefs, ty) ==
    CASE ty.k = "Path" ->
           LET rooted == ty.segs[1].ident = id_root
               segs == IF rooted
                       THEN [i \in 1..(Len(ty.segs) - 1) |->
                               SegArgs(ty.segs[i + 1].ident,
                                       [j \in 1..Len(ty.segs[i + 1].args) |->
                                           convert_type_Const(typedefs,
                                                              ty.segs[i + 1].args[j])])]
                       ELSE ty.segs
               newp == replace_cpp_with_cxx(typedefs, PathT(segs))
           IN  IF should_dereference_in_cpp(newp)
               THEN RefT(FALSE, Plain(<<id_str>>))
               ELSE newp
      [] ty.k = "Reference" -> RefT(ty.mut, convert_type_Const(typedefs, ty.elem[1]))
      [] ty.k = "Ptr" -> RefT(FALSE, convert_type_Const(typedefs, ty.elem[1]))
      [] OTHER -> ty

RECURSIVE convert_type(_, _)
\* BridgeConversion::convert_type, with convert_boxed_type, convert_type_path,
\* convert_punctuated and convert_ptr_to_reference: the leading root segment is
\* dropped (and only then are path arguments converted), typedefs are resolved,
\* known types renamed, rust_Str becomes &str, a pointer becomes a reference of
\* the same mutability.
convert_type(typedefs, ty) ==
    CASE ty.k = "Path" ->
           LET rooted == ty.segs[1].ident = id_root
               segs == IF rooted
                       THEN [i \in 1..(Len(ty.segs) - 1) |->
                               SegArgs(ty.segs[i + 1].ident,
                                       [j \in 1..Len(ty.segs[i + 1].args) |->
                                           convert_type(typedefs, ty.segs[i + 1].args[j])])]
                       ELSE ty.segs
               newp == replace_cpp_with_cxx(typedefs, PathT(segs))
           IN  IF should_dereference_in_cpp(newp)
               THEN RefT(FALSE, Plain(<<id_str>>))
               ELSE newp
      [] ty.k = "Reference" -> RefT(ty.mut, convert_type(typedefs, ty.elem[1]))
      [] ty.k = "Ptr" -> RefT(ty.mut, convert_type(typedefs, ty.elem[1]))
      [] OTHER -> ty

RECURSIVE unqualify_type(_)
\* unqualify::unqualify_params / unqualify_ret_type: every path keeps its last
\* segment only.
unqualify_type(ty) ==
    CASE ty.k = "Path" ->
           LET l == Last(ty.segs)
           IN  PathT(<<SegArgs(l.ident,
                               [j \in 1..Len(l.args) |-> unqualify_type(l.args[j])])>>)
      [] ty.k \in {"Reference", "Ptr"} ->
           [ty EXCEPT !.elem = <<unqualify_type(ty.elem[1])>>]
      [] OTHER -> ty

(***************************************************************************)
(* additional_cpp_generator::ArgumentConversion                            *)
(***************************************************************************)

ArgumentConversion_new_unconverted(ty) ==
    [conversion |-> "Unconverted", unwrapped_type |-> ty]
ArgumentConversion_new_to_unique_ptr(ty) ==
    [conversion |-> "ToUniquePtr", unwrapped_type |-> ty]
ArgumentConversion_new_from_unique_ptr(ty) ==
    [conversion |-> "FromUniquePtr", unwrapped_type |-> ty]
work_needed(c) == c.conversion # "Unconverted"
\* The handle type UniquePtr<T>.
make_unique_ptr_type(ty) == PathT(<<SegArgs(id_UniquePtr, <<ty>>)>>)
\* The Rust type of a return value given back through a handle.
unconverted_rust_type(c) ==
    IF c.conversion = "ToUniquePtr" THEN make_unique_ptr_type(c.unwrapped_type)
    ELSE c.unwrapped_type
\* The Rust type of a parameter handed over through a handle.
converted_rust_type(c) ==
    IF c.conversion = "FromUniquePtr" THEN make_unique_ptr_type(c.unwrapped_type)
    ELSE c.unwrapped_type

(***************************************************************************)
(* The BridgeConversion and the functions that write to it                 *)
(***************************************************************************)

\* ConvertError and the ways a run ends. out is the BridgeConversionResults of
\* an Ok, None otherwise; name is the type an UnsafePODType error names.
Ok(items, needs) ==
    [kind |-> "Ok", err |-> "", name |-> None,
     out |-> Some([items |-> items, additional_cpp_needs |-> needs])]
Err(e) == [kind |-> "Err", err |-> e, name |-> None, out |-> None]
UnsafePODType(tn) ==
    [kind |-> "Err", err |-> "UnsafePODType", name |-> Some(tn), out |-> None]
\* A panic, or the stack overflow of an unbounded recursion: the run is over
\* and convert returns nothing.
Aborted(how) == [kind |-> how, err |-> "", name |-> None, out |-> None]

\* The BridgeConversion built by BridgeConverter::convert.
BridgeConversion_new ==
    [all_items |-> <<>>, bridge_items |-> <<>>, extern_c_mod |-> None,
     extern_c_mod_items |-> <<>>, additional_cpp_needs |-> <<>>,
     types_found |-> <<>>, byvalue_checker |-> ByValueChecker_new,
     final_uses |-> <<>>, typedefs |-> <<>>]

\* BridgeConverter.include_list
include_list == << <<"i", "n", "p", "u", "t", ".", "h">> >>

\* A function emitted into the extern "C" block of the bridge.
ForeignFn(namespace_attr, rust_name_attr, ident, inputs, output) ==
    [k |-> "Fn", namespace_attr |-> namespace_attr, rust_name_attr |-> rust_name_attr,
     ident |-> ident, inputs |-> inputs, output |-> output]
\* A typed function parameter.
Arg(pat, ty) == [pat |-> pat, ty |-> ty]

\* Mutant: recording a use statement also records the name with the checker.
add_use_Ingesting(c, ns, id) ==
    [c EXCEPT !.final_uses = Append(@, [ns |-> ns, id |-> id]),
              !.byvalue_checker = ingest_nonpod_type(@, TypeName_new(ns, id))]

\* Mutant: every use statement is recorded under the root namespace.
add_use_AtRoot(c, ns, id) ==
    [c EXCEPT !.final_uses = Append(@, [ns |-> Namespace_new, id |-> id])]

\* BridgeConversion::add_use
add_use(c, ns, id) == [c EXCEPT !.final_uses = Append(@, [ns |-> ns, id |-> id])]

\* Mutant: the request for the string constructor is made twice.
generate_utilities_Twice(c) ==
    [c EXCEPT !.additional_cpp_needs =
                  @ \o <<[need |-> "MakeStringConstructor"],
                         [need |-> "MakeStringConstructor"]>>]

\* BridgeConversion::generate_utilities
generate_utilities(c) ==
    LET make_string ==
            ForeignFn(None, None, id_make_string,
                      <<Arg(<<"s", "t", "r", "_">>, RefT(FALSE, Plain(<<id_str>>)))>>,
                      Some(make_unique_ptr_type(Plain(<<id_CxxString>>))))
        c1 == [c EXCEPT !.extern_c_mod_items = Append(@, make_string)]
        c2 == add_use(c1, Namespace_new, id_make_string)
    IN  [c2 EXCEPT !.additional_cpp_needs =
                       Append(@, [need |-> "MakeStringConstructor"])]

\* Mutant: every type is bound with the kind Trivial.
generate_type_alias_Trivial(c, tyname, should_be_pod) ==
    LET final_ident == tyname.id
        fulltypath == <<id_bindgen, id_root>> \o tyname.ns \o <<final_ident>>
        verbatim == [k |-> "Verbatim",
                     namespace_attr |-> IF tyname.ns # <<>>
                                        THEN Some(Join(tyname.ns, str_colons))
                                        ELSE None,
                     ident |-> final_ident,
                     target |-> <<id_super>> \o fulltypath]
        c1 == [c EXCEPT
                 !.extern_c_mod_items = Append(@, verbatim),
                 !.bridge_items =
                     Append(@, [k |-> "Impl",
                                self_ty |-> make_unique_ptr_type(Plain(<<final_ident>>)),
                                items |-> <<>>]),
                 !.all_items =
                     Append(@, [k |-> "ExternType", path |-> fulltypath,
                                id |-> TypeName_to_cpp_name(tyname),
                                kind |-> "Trivial"])]
        c2 == add_use(c1, tyname.ns, final_ident)
    IN  [c2 EXCEPT !.types_found = Append(@, final_ident)]

\* BridgeConversion::generate_type_alias
generate_type_alias(c, tyname, should_be_pod) ==
    LET final_ident == tyname.id
        fulltypath == <<id_bindgen, id_root>> \o tyname.ns \o <<final_ident>>
        verbatim == [k |-> "Verbatim",
                     namespace_attr |-> IF tyname.ns # <<>>
                                        THEN Some(Join(tyname.ns, str_colons))
                                        ELSE None,
                     ident |-> final_ident,
                     target |-> <<id_super>> \o fulltypath]
        c1 == [c EXCEPT
                 !.extern_c_mod_items = Append(@, verbatim),
                 !.bridge_items =
                     Append(@, [k |-> "Impl",
                                self_ty |-> make_unique_ptr_type(Plain(<<final_ident>>)),
                                items |-> <<>>]),
                 !.all_items =
                     Append(@, [k |-> "ExternType", path |-> fulltypath,
                                id |-> TypeName_to_cpp_name(tyname),
                                kind |-> IF should_be_pod THEN "Trivial" ELSE "Opaque"])]
        c2 == add_use(c1, tyname.ns, final_ident)
    IN  [c2 EXCEPT !.types_found = Append(@, final_ident)]

\* BridgeConversion::build_include_foreign_items
build_include_foreign_items(c) ==
    LET chained == IF c.additional_cpp_needs = <<>> THEN include_list
                   ELSE Append(include_list, str_autocxxgen_h)
    IN  [i \in 1..Len(chained) |-> [k |-> "Macro", include |-> chained[i]]]

\* BridgeConversion::convert_new_method: the item pushed to output_items and the
\* conversion afterwards; nothing is done for a method without a return type.
convert_new_method(c, m, ty, i, output_items) ==
    IF m.output = None THEN [conv |-> c, out |-> output_items]
    ELSE LET typed == {j \in 1..Len(m.inputs) : type_to_typename(m.inputs[j].ty) # None}
             cpp_arg_types == [j \in 1..Cardinality(typed) |->
                 type_to_typename(
                   m.inputs[CHOOSE x \in typed :
                              Cardinality({y \in typed : y <= x}) = j].ty)[1]]
             cpp_arg_names == [j \in 1..Cardinality(typed) |->
                   m.inputs[CHOOSE x \in typed :
                              Cardinality({y \in typed : y <= x}) = j].pat]
             call_name == TypeName_to_string(ty) \o str_underscore \o id_make_unique
             c1 == [c EXCEPT !.additional_cpp_needs =
                        Append(@, [need |-> "MakeUnique", ty |-> ty,
                                   args |-> cpp_arg_types])]
             c2 == add_use(c1, ty.ns, call_name)
             c3 == [c2 EXCEPT !.extern_c_mod_items =
                        Append(@, ForeignFn(None, None, call_name, m.inputs,
                                            Some(make_unique_ptr_type(i.self_ty))))]
             new_impl_method ==
                 [k |-> "Method", ident |-> id_make_unique, inputs |-> m.inputs,
                  output |-> Some(PathT(<<Seg(id_cxx),
                                          SegArgs(id_UniquePtr, <<m.output[1]>>)>>)),
                  block |-> [call |-> <<id_cxxbridge, call_name>>,
                             args |-> cpp_arg_names]]
         IN  [conv |-> c3,
              out |-> Append(output_items,
                             [k |-> "Impl", self_ty |-> i.self_ty,
                              items |-> <<new_impl_method>>])]

\* BridgeConversion::conversion_required
conversion_required(c, ty) ==
    IF ty.k = "Path"
    THEN IF is_pod(c.byvalue_checker, TypeName_from_cxx_type_path(ty))
         THEN ArgumentConversion_new_unconverted(ty)
         ELSE ArgumentConversion_new_from_unique_ptr(ty)
    ELSE ArgumentConversion_new_unconverted(ty)

\* Mutant: every return type written by value is converted.
requires_conversion_Always(c, ty) == ty.k = "Path"

\* BridgeConversion::requires_conversion
requires_conversion(c, ty) ==
    IF ty.k = "Path"
    THEN ~is_pod(c.byvalue_checker, TypeName_from_cxx_type_path(ty))
    ELSE FALSE

\* BridgeConversion::convert_fn_arg: the converted argument and its
\* ArgumentAnalysis.
convert_fn_arg(c, arg) ==
    LET found_this == arg.pat = id_this
        new_pat == IF found_this THEN id_self ELSE arg.pat
        new_ty == convert_type(c.typedefs, arg.ty)
    IN  [arg |-> Arg(new_pat, new_ty),
         was_self |-> found_this,
         name |-> new_pat,
         conversion |-> conversion_required(c, new_ty)]

\* BridgeConversion::convert_return_type
convert_return_type(c, rt) ==
    IF rt = None THEN [ret |-> None, conversion |-> None]
    ELSE LET boxed_type == convert_type(c.typedefs, rt[1])
         IN  [ret |-> Some(boxed_type),
              conversion |->
                  Some(IF requires_conversion(c, boxed_type)
                       THEN ArgumentConversion_new_to_unique_ptr(boxed_type)
                       ELSE ArgumentConversion_new_unconverted(boxed_type))]

\* convert_foreign_fn, its first loop: the name is <T>_<T> or <T>_<T>_destructor
\* for a type T found so far.
is_constructor_or_destructor(types_found, ident) ==
    \E i \in 1..Len(types_found) :
        LET ty == types_found[i]
            constructor_name == ty \o str_underscore \o ty
        IN  \/ ident = constructor_name
            \/ ident = constructor_name \o str_destructor

\* convert_foreign_fn, its naming of a method: the first type found so far whose
\* name the flat name starts with is cut off together with one more character.
\* The slice rust_name[cn.len() + 1..] panics if it starts past the end.
strip_class_name(types_found, rust_name) ==
    LET hits == {i \in 1..Len(types_found) : StartsWith(rust_name, types_found[i])}
    IN  IF hits = {} THEN [panic |-> FALSE, name |-> rust_name]
        ELSE LET cn == types_found[MinOf(hits)]
             IN  IF Len(cn) + 1 > Len(rust_name)
                 THEN [panic |-> TRUE, name |-> <<>>]
                 ELSE [panic |-> FALSE,
                       name |-> SubSeq(rust_name, Len(cn) + 2, Len(rust_name))]

\* types::make_ident is Ident::new, which panics on the empty string.
make_ident_panics(s) == s = <<>>

\* convert_foreign_fn: the name the function is visible under in Rust.
rust_name_of(types_found, fun) ==
    IF \E i \in 1..Len(fun.inputs) : fun.inputs[i].pat = id_this
    THEN strip_class_name(types_found, fun.ident)
    ELSE [panic |-> FALSE, name |-> fun.ident]

\* Mutant: the wrapped function keeps the name it is visible under.
wrapper_name_Same(rust_name) == rust_name

\* convert_foreign_fn, the name of the C++ wrapper function:
\* format!("{}_up_wrapper", rust_name)
wrapper_name(rust_name) == rust_name \o str_up_wrapper

\* convert_foreign_fn, how it fails, "" if it does not: the conversion of a
\* parameter type, the naming, the conversion of the return type, in this order.
convert_foreign_fn_failure(c, fun) ==
    LET arg_failure == FirstFailure([i \in 1..Len(fun.inputs) |->
                           convert_type_failure(c.typedefs, fun.inputs[i].ty)])
        naming == rust_name_of(c.types_found, fun)
    IN  IF arg_failure # "" THEN arg_failure
        ELSE IF naming.panic THEN "Panic"
        ELSE IF make_ident_panics(naming.name) THEN "Panic"
        ELSE IF fun.output = None THEN ""
        ELSE convert_type_failure(c.typedefs, fun.output[1])

\* convert_foreign_fn from the analysis of the parameters, the name and the
\* analysis of the return type on: the need of a wrapper, the cxx::bridge entry
\* and the use statement.
emit_foreign_fn(c, ns, param_details, rust_name, ret) ==
    LET is_a_method == \E i \in 1..Len(param_details) : param_details[i].was_self
        wrapper_function_needed ==
            \/ \E i \in 1..Len(param_details) : work_needed(param_details[i].conversion)
            \/ ret.conversion # None /\ work_needed(ret.conversion[1])
        a == [need |-> "ByValueWrapper", id |-> rust_name,
              return_conversion |-> ret.conversion,
              argument_conversion |->
                  [i \in 1..Len(param_details) |-> param_details[i].conversion],
              is_a_method |-> is_a_method]
        wrapped == ForeignFn(
            IF ns = <<>> THEN None ELSE Some(Namespace_to_string(ns)),
            Some(rust_name),
            wrapper_name(rust_name),
            [i \in 1..Len(param_details) |->
                Arg(IF param_details[i].was_self THEN id_autocxx_gen_this
                    ELSE param_details[i].name,
                    unqualify_type(converted_rust_type(param_details[i].conversion)))],
            IF ret.conversion = None THEN None
            ELSE Some(unqualify_type(unconverted_rust_type(ret.conversion[1]))))
        direct == ForeignFn(
            IF ns = <<>> THEN None ELSE Some(Namespace_to_string(ns)),
            None,
            rust_name,
            [i \in 1..Len(param_details) |->
                Arg(param_details[i].arg.pat, unqualify_type(param_details[i].arg.ty))],
            IF ret.ret = None THEN None ELSE Some(unqualify_type(ret.ret[1])))
    IN  IF wrapper_function_needed
        THEN add_use([c EXCEPT !.additional_cpp_needs = Append(@, a),
                               !.extern_c_mod_items = Append(@, wrapped)],
                     ns, rust_name)
        ELSE IF is_a_method
        THEN [c EXCEPT !.extern_c_mod_items = Append(@, direct)]
        ELSE add_use([c EXCEPT !.extern_c_mod_items = Append(@, direct)],
                     ns, rust_name)

\* BridgeConversion::convert_foreign_fn: how the call ends ("Ok", "Panic",
\* "Overflow") and the conversion afterwards. A constructor or destructor is
\* passed over.
convert_foreign_fn(c, fun, ns) ==
    IF is_constructor_or_destructor(c.types_found, fun.ident)
    THEN [st |-> "Ok", conv |-> c]
    ELSE LET failure == convert_foreign_fn_failure(c, fun)
         IN  IF failure # "" THEN [st |-> failure, conv |-> c]
             ELSE [st |-> "Ok",
                   conv |-> emit_foreign_fn(
                       c, ns,
                       [i \in 1..Len(fun.inputs) |-> convert_fn_arg(c, fun.inputs[i])],
                       rust_name_of(c.types_found, fun).name,
                       convert_return_type(c, fun.output))]

RECURSIVE Dedup(_)
\* The elements of a sequence in the order they are first seen.
Dedup(s) ==
    IF s = <<>> THEN <<>>
    ELSE LET r == Dedup(ButLast(s))
         IN  IF \E i \in 1..Len(r) : r[i] = Last(s) THEN r ELSE Append(r, Last(s))

RECURSIVE Filter(_, _)
\* The elements of a sequence, in order, whose index is in keep.
Filter(s, keep) ==
    IF s = <<>> THEN <<>>
    ELSE LET r == Filter(ButLast(s), keep)
         IN  IF Len(s) \in keep THEN Append(r, Last(s)) ELSE r

\* Mutant: every identifier is re-exported at the node the walk is at.
append_child_namespace_Flat(uses, prefix) ==
    [i \in 1..Len(uses) |-> [k |-> "Use", path |-> <<id_cxxbridge, uses[i].id>>]]

RECURSIVE append_child_namespace(_, _)
\* BridgeConversion::append_child_namespace over the NamespaceEntries of the
\* uses below the namespace prefix: a re-export per identifier recorded at
\* prefix, then a module per child segment, in the order the segments are first
\* seen.
append_child_namespace(uses, prefix) ==
    LET here == Filter(uses, {i \in 1..Len(uses) : uses[i].ns = prefix})
        below == Filter(uses, {i \in 1..Len(uses) :
                                  /\ Len(uses[i].ns) > Len(prefix)
                                  /\ StartsWith(uses[i].ns, prefix)})
        children == Dedup([i \in 1..Len(below) |-> below[i].ns[Len(prefix) + 1]])
    IN  [i \in 1..Len(here) |-> [k |-> "Use", path |-> <<id_cxxbridge, here[i].id>>]]
        \o [i \in 1..Len(children) |->
              [k |-> "Mod", ident |-> children[i],
               content |-> Some(<<[k |-> "Use", path |-> <<id_super, id_cxxbridge>>]>>
                                \o append_child_namespace(uses,
                                       Append(prefix, children[i])))]]

\* BridgeConversion::generate_final_use_statements
generate_final_use_statements(c) ==
    [c EXCEPT !.all_items = @ \o append_child_namespace(c.final_uses, Namespace_new)]

(***************************************************************************)
(* The input: what bindgen hands to convert                                *)
(***************************************************************************)

\* syn::Item and syn::ForeignItem as records; k is the variant.
ItemStruct(ident, fields) ==
    [k |-> "Struct", ident |-> ident, fields |-> fields, attrs |-> <<>>]
ItemEnum(ident) == [k |-> "Enum", ident |-> ident]
ItemType(ident, generics, ty) ==
    [k |-> "Type", ident |-> ident, generics |-> generics, ty |-> ty]
ItemMod(ident, content) == [k |-> "Mod", ident |-> ident, content |-> content]
ItemForeignMod(items) == [k |-> "ForeignMod", items |-> items]
ItemImpl(self_ty, items) == [k |-> "Impl", self_ty |-> self_ty, items |-> items]
ImplItemMethod(ident, inputs, output) ==
    [k |-> "Method", ident |-> ident, inputs |-> inputs, output |-> output]
ItemUse(path) == [k |-> "Use", path |-> path]
ItemConst(ident) == [k |-> "Const", ident |-> ident]
ItemMacro == [k |-> "Macro"]
ForeignItemFn(ident, inputs, output) ==
    [k |-> "Fn", ident |-> ident, inputs |-> inputs, output |-> output]
ForeignItemStatic(ident) == [k |-> "Static", ident |-> ident]

\* get_blank_extern_c_mod
get_blank_extern_c_mod == ItemForeignMod(<<>>)

\* Deepest namespace nesting of the inputs.
MaxDepth == 2

\* The names of the nested namespaces, outermost first.
SegNames == << <<"a">>, <<"b">>, <<"c">>, <<"d">> >>
NsPath(d) == SubSeq(SegNames, 1, d)
NsPaths == {NsPath(d) : d \in 0..MaxDepth}

id_other == <<"o", "t", "h", "e", "r">>

\* S is Trivial, O is Opaque (it has a pointer field), W is as S is.
StructS == ItemStruct(<<"S">>, <<Plain(<<id_c_int>>)>>)
StructO == ItemStruct(<<"O">>, <<PtrT(TRUE, Plain(<<id_c_int>>))>>)
StructW == ItemStruct(<<"W">>, <<Plain(<<id_root, <<"S">>>>)>>)
EnumE == ItemEnum(<<"E">>)
TypeA == ItemType(<<"A">>, FALSE, Plain(<<id_root, <<"S">>>>))
ImplO == ItemImpl(Plain(<<id_root, <<"O">>>>),
                  <<ImplItemMethod(id_new, <<Arg(<<"x">>, Plain(<<id_c_int>>))>>,
                                   Some(Plain(<<id_self>>))),
                    ImplItemMethod(<<"g">>, <<>>, None)>>)
\* Items the rewrite passes over or passes on.
Misc == <<ItemConst(<<"x">>),
          ItemType(<<"g">>, TRUE, Plain(<<id_c_int>>)),
          ItemType(<<"y">>, FALSE, PathT(<<SegArgs(<<"W">>, <<Plain(<<id_c_int>>)>>)>>)),
          ItemMod(id_other, None),
          ItemMacro>>

\* What one position of a tree declares: some items, possibly none (a
\* namespace with nothing in it).
TypeDecls ==
    {<<>>, <<StructS>>, <<StructO>>, <<StructW>>, <<EnumE>>, <<TypeA>>, <<ImplO>>,
     <<ItemUse(<<id_std, <<"x">>>>)>>, Misc,
     \* a method new that declares no return type
     <<ItemImpl(Plain(<<id_root, <<"O">>>>), <<ImplItemMethod(id_new, <<>>, None)>>)>>,
     \* two methods new in one block
     <<ItemImpl(Plain(<<id_root, <<"S">>>>),
                <<ImplItemMethod(id_new, <<>>, Some(Plain(<<id_self>>))),
                  ImplItemMethod(id_new, <<Arg(<<"x">>, Plain(<<id_c_int>>))>>,
                                 Some(Plain(<<id_root, <<"S">>>>)))>>)>>,
     \* a block whose self type is no path
     <<ItemImpl(PtrT(TRUE, Plain(<<id_root, <<"O">>>>)),
                <<ImplItemMethod(id_new, <<>>, Some(Plain(<<id_self>>)))>>)>>}

RECURSIVE Place(_, _, _)
\* The items with decl added in the namespace path below them; the module of
\* a namespace is made where the namespace is first used.
Place(items, path, decl) ==
    IF path = <<>> THEN items \o decl
    ELSE LET hits == {i \in 1..Len(items) :
                         /\ items[i].k = "Mod"
                         /\ items[i].ident = path[1]
                         /\ items[i].content # None}
         IN  IF hits = {}
             THEN Append(items,
                         ItemMod(path[1], Some(Place(<<>>, Tail(path), decl))))
             ELSE [items EXCEPT ![MinOf(hits)].content =
                       Some(Place(@[1], Tail(path), decl))]

\* The wrapper module bindgen makes: everything is in a module root.
Wrapper(root_items) ==
    [ident |-> id_bindgen, content |-> Some(<<ItemMod(id_root, Some(root_items))>>)]

\* Trees of type declarations: one or two positions, each in some namespace.
TypeTrees ==
    LET one == {Place(<<>>, p, d) : p \in NsPaths, d \in TypeDecls}
    IN  one \cup {Place(t, p, d) : t \in one, p \in NsPaths, d \in TypeDecls}

\* The types requested to be POD of a tree of type declarations.
TypeRequests ==
    { <<>>,
      <<TypeName_new(<<>>, <<"S">>)>>,
      <<TypeName_new(<<>>, <<"O">>)>>,
      <<TypeName_new(<<>>, <<"W">>)>>,
      <<TypeName_new(NsPath(1), <<"S">>)>>,
      <<TypeName_new(<<>>, <<"S">>), TypeName_new(<<>>, <<"O">>)>> }

\* The functions of a foreign block.
FnNames ==
    {<<"f">>, <<"O">>, <<"O", "_", "g">>, <<"O", "x", "_", "g">>, <<"O", "_", "O">>,
     <<"O", "_", "O">> \o str_destructor}
ty_S == Plain(<<id_root, <<"S">>>>)
ty_O == Plain(<<id_root, <<"O">>>>)
ParamLists ==
    {<<>>,
     <<Arg(<<"x">>, ty_S)>>,
     <<Arg(<<"x">>, ty_O)>>,
     <<Arg(<<"x">>, ty_O), Arg(<<"y">>, ty_O)>>,
     <<Arg(id_this, PtrT(TRUE, ty_O))>>,
     <<Arg(id_this, PtrT(TRUE, ty_O)), Arg(<<"x">>, ty_O)>>,
     <<Arg(<<"x">>, Plain(<<id_rust_Str>>))>>,
     <<Arg(<<"x">>, Plain(<<id_root, id_std, id_string>>))>>,
     <<Arg(<<"x">>, PtrT(TRUE, PtrT(FALSE, ty_S))), Arg(<<"y">>, PtrT(FALSE, ty_O))>>}
Returns ==
    {None, Some(ty_S), Some(ty_O), Some(PtrT(FALSE, ty_O)),
     Some(PtrT(TRUE, PtrT(FALSE, ty_S)))}
Fns == {ForeignItemFn(n, ps, r) : n \in FnNames, ps \in ParamLists, r \in Returns}

f_plain == ForeignItemFn(<<"f">>, <<Arg(<<"x">>, ty_S)>>, None)
ForeignBlocks ==
    {<<fn>> : fn \in Fns}
        \cup {<<ForeignItemStatic(<<"x">>)>>,
              <<f_plain, ForeignItemStatic(<<"x">>)>>,
              <<ForeignItemStatic(<<"x">>),
                ForeignItemFn(<<"f">>, <<Arg(<<"x">>, ty_O)>>, None)>>,
              <<ForeignItemFn(<<"f">>, <<Arg(<<"x">>, ty_O)>>, None),
                ForeignItemFn(<<"g">>, <<>>, Some(ty_O))>>}

\* Trees with the structs S and O at the root and one foreign block in some
\* namespace, after the structs or before them.
FnTrees ==
    {Place(<<StructS, StructO>>, p, <<ItemForeignMod(b)>>) :
         p \in NsPaths, b \in ForeignBlocks}
      \cup {Place(<<>>, p, <<ItemForeignMod(b)>>) \o <<StructS, StructO>> :
                p \in NsPaths, b \in ForeignBlocks}
FnRequests == {<<>>, <<TypeName_new(<<>>, <<"O">>)>>}

\* Trees with the struct S, typedefs and one foreign block whose function names
\* a typedef, the block before, between or after the typedefs: A is S, B is A,
\* C is C, P is Q and Q is P.
AliasTrees ==
    LET alias(n, t) == ItemType(<<n>>, FALSE, Plain(<<id_root, <<t>>>>))
        decls == {<<TypeA>>,
                  <<TypeA, alias("B", "A")>>,
                  <<alias("B", "A"), TypeA>>,
                  <<alias("C", "C")>>,
                  <<alias("P", "Q"), alias("Q", "P")>>}
        named == {Plain(<<id_root, <<n>>>>) : n \in {"A", "B", "C", "P"}}
        fns == {ForeignItemFn(<<"f">>, <<Arg(<<"x">>, t)>>, None) : t \in named}
                 \cup {ForeignItemFn(<<"f">>, <<>>, Some(t)) : t \in named}
    IN  UNION {{<<StructS>> \o SubSeq(d, 1, k) \o <<ItemForeignMod(<<fn>>)>>
                    \o SubSeq(d, k + 1, Len(d)) :
                  k \in 0..Len(d), fn \in fns} : d \in decls}

\* Wrappers that are not of the shape bindgen makes.
OddWrappers ==
    {[ident |-> id_bindgen, content |-> None],
     [ident |-> id_bindgen, content |-> Some(<<>>)],
     [ident |-> id_bindgen, content |-> Some(<<StructS>>)],
     [ident |-> id_bindgen, content |-> Some(<<ItemMod(id_other, Some(<<>>))>>)],
     [ident |-> id_bindgen, content |-> Some(<<ItemMod(id_root, None)>>)],
     [ident |-> id_bindgen,
      content |-> Some(<<ItemMod(id_root, Some(<<StructS>>)),
                         ItemMod(id_root,
                                 Some(<<StructO,
                                        ItemForeignMod(<<ForeignItemStatic(<<"x">>)>>)>>))>>)],
     [ident |-> id_bindgen,
      content |-> Some(<<ItemMod(id_root,
                                 Some(<<ItemForeignMod(<<ForeignItemStatic(<<"x">>)>>)>>)),
                         StructS>>)]}

(***************************************************************************)
(* The run of BridgeConverter::convert, a step per loop iteration and return *)
(***************************************************************************)

\* A call in progress of find_nested_pod_types ("find"), convert_mod_items
\* ("convert") or convert_foreign_mod_items ("foreign"): the items it has still
\* to visit, its namespace, its output_items, and for the call made for a nested
\* module the module item that is being rebuilt.
Frame(fn, items, ns, out, itm) ==
    [fn |-> fn, items |-> items, ns |-> ns, out |-> out, itm |-> itm]
Top == Head(calls)
Rest == Tail(calls)
Advance(fr) == [fr EXCEPT !.items = Tail(@)]

\* Mutant: a wrapper whose list of items is empty counts as having no content.
no_content_OrEmpty(b) == b.content = None \/ b.content = Some(<<>>)

\* BridgeConverter::convert, the match on bindings.content.
no_content(b) == b.content = None

\* BridgeConverter::convert, up to the loop of convert_items.
Convert ==
    /\ pc = "start"
    /\ IF no_content(bindings)
       THEN /\ result' = Some(Err("NoContent"))
            /\ pc' = "done"
            /\ UNCHANGED <<conv, outer>>
       ELSE /\ conv' = IF exclude_utilities THEN BridgeConversion_new
                       ELSE generate_utilities(BridgeConversion_new)
            /\ outer' = bindings.content[1]
            /\ pc' = "items"
            /\ UNCHANGED result
    /\ UNCHANGED <<bindings, pod_requests, exclude_utilities, root_out, calls>>
    /\ UNCHANGED hvars

\* convert_items, one iteration of its loop up to the call of
\* find_nested_pod_types.
ConvertItems ==
    /\ pc = "items"
    /\ outer # <<>>
    /\ LET item == Head(outer)
       IN  IF item.k # "Mod"
           THEN /\ result' = Some(Aborted("Panic"))
                /\ pc' = "done"
                /\ UNCHANGED <<outer, calls>>
           ELSE IF item.ident # id_root
           THEN /\ result' = Some(Aborted("Panic"))
                /\ pc' = "done"
                /\ UNCHANGED <<outer, calls>>
           ELSE IF item.content = None
           THEN /\ outer' = Tail(outer)
                /\ UNCHANGED <<pc, calls, result>>
           ELSE /\ calls' = <<Frame("find", item.content[1], Namespace_new, <<>>, None)>>
                /\ pc' = "walk"
                /\ UNCHANGED <<outer, result>>
    /\ UNCHANGED <<bindings, pod_requests, exclude_utilities, conv, root_out>>
    /\ UNCHANGED hvars

\* find_nested_pod_types, what one item that is no module does to the checker.
find_item(checker, item, ns) ==
    CASE item.k = "Struct" -> ingest_struct(checker, item, ns)
      [] item.k = "Enum" -> ingest_pod_type(checker, TypeName_new(ns, item.ident))
      [] item.k = "Type" ->
           IF should_ignore_item_type(item) THEN checker
           ELSE LET typedef_type == analyze_typedef_target(item.ty)
                    name == TypeName_new(ns, item.ident)
                IN  IF typedef_type.t = "NoArguments"
                    THEN ingest_simple_typedef(checker, name, typedef_type.tn[1])
                    ELSE ingest_nonpod_type(checker, name)
      [] OTHER -> checker

\* find_nested_pod_types, one iteration of its loop.
FindItem ==
    /\ pc = "walk"
    /\ Top.fn = "find"
    /\ Top.items # <<>>
    /\ LET item == Head(Top.items)
       IN  IF item.k = "Mod"
           THEN /\ calls' = IF item.content = None
                            THEN <<Advance(Top)>> \o Rest
                            ELSE <<Frame("find", item.content[1],
                                         Namespace_push(Top.ns, item.ident), <<>>, None),
                                   Advance(Top)>> \o Rest
                /\ UNCHANGED conv
           ELSE /\ calls' = <<Advance(Top)>> \o Rest
                /\ conv' = [conv EXCEPT
                              !.byvalue_checker = find_item(@, item, Top.ns)]
    /\ UNCHANGED <<bindings, pod_requests, exclude_utilities, pc, outer, root_out, result>>
    /\ UNCHANGED hvars

\* find_nested_pod_types, the end of a call, at whatever depth: satisfy_requests,
\* whose error is passed up by every caller; then back to the caller, which for
\* the outermost call is convert_items and goes on to call convert_mod_items.
FindReturn ==
    /\ pc = "walk"
    /\ Top.fn = "find"
    /\ Top.items = <<>>
    /\ LET r == satisfy_requests(conv.byvalue_checker, pod_requests)
       IN  IF r # None
           THEN /\ result' = Some(UnsafePODType(r[1]))
                /\ pc' = "done"
                /\ calls' = <<>>
           ELSE /\ calls' = IF Rest = <<>>
                            THEN <<Frame("convert", Head(outer).content[1],
                                         Namespace_new, root_out, None)>>
                            ELSE Rest
                /\ UNCHANGED <<pc, result>>
    /\ UNCHANGED <<bindings, pod_requests, exclude_utilities, conv, outer, root_out>>
    /\ UNCHANGED hvars

\* Mutant: no method of an impl block is converted.
convert_impl_items_None(c, out, items, ty, i) == [conv |-> c, out |-> out]

RECURSIVE convert_impl_items(_, _, _, _, _)
\* convert_mod_items, the loop over the items of an impl block: the methods
\* called new are converted.
convert_impl_items(c, out, items, ty, i) ==
    IF items = <<>> THEN [conv |-> c, out |-> out]
    ELSE IF Head(items).k = "Method" /\ Head(items).ident = id_new
         THEN LET r == convert_new_method(c, Head(items), ty, i, out)
              IN  convert_impl_items(r.conv, r.out, Tail(items), ty, i)
         ELSE convert_impl_items(c, out, Tail(items), ty, i)


\* convert_mod_items, what one item that is neither a foreign block nor a module
\* with content does to the conversion and to output_items.
convert_mod_item(c, out, item, ns) ==
    CASE item.k = "Struct" ->
           LET tyname == TypeName_new(ns, item.ident)
               should_be_pod == is_pod(c.byvalue_checker, tyname)
           IN  [conv |-> generate_type_alias(c, tyname, should_be_pod),
                out |-> Append(out, IF should_be_pod THEN item
                                    ELSE [item EXCEPT !.fields = <<[k |-> "Array"]>>,
                                                      !.attrs = <<"repr(C, packed)">>])]
      [] item.k = "Enum" ->
           [conv |-> generate_type_alias(c, TypeName_new(ns, item.ident), TRUE),
            out |-> Append(out, item)]
      [] item.k = "Impl" ->
           IF type_to_typename(item.self_ty) = None THEN [conv |-> c, out |-> out]
           ELSE convert_impl_items(c, out, item.items,
                                   type_to_typename(item.self_ty)[1], item)
      [] item.k = "Mod" -> [conv |-> c, out |-> Append(out, item)]
      [] item.k = "Use" -> [conv |-> c, out |-> Append(out, item)]
      [] item.k = "Const" ->
           [conv |-> [c EXCEPT !.all_items = Append(@, item)], out |-> out]
      [] item.k = "Type" ->
           IF should_ignore_item_type(item) THEN [conv |-> c, out |-> out]
           ELSE [conv |-> [c EXCEPT !.typedefs =
                               (TypeName_new(ns, item.ident)
                                    :> analyze_typedef_target(item.ty)) @@ @],
                 out |-> Append(out, item)]
      [] OTHER -> [conv |-> c, out |-> out]

\* convert_mod_items, one iteration of its loop.
ConvertModItem ==
    /\ pc = "walk"
    /\ Top.fn = "convert"
    /\ Top.items # <<>>
    /\ LET item == Head(Top.items)
       IN  IF item.k = "ForeignMod"
           THEN /\ conv' = IF conv.extern_c_mod = None
                           THEN [conv EXCEPT
                                   !.extern_c_mod = Some([item EXCEPT !.items = <<>>])]
                           ELSE conv
                /\ calls' = <<Frame("foreign", item.items, Top.ns, <<>>, None),
                              Advance(Top)>> \o Rest
           ELSE IF item.k = "Mod" /\ item.content # None
           THEN /\ calls' = <<Frame("convert", item.content[1],
                                    Namespace_push(Top.ns, item.ident), <<>>, Some(item)),
                              Advance(Top)>> \o Rest
                /\ UNCHANGED conv
           ELSE LET r == convert_mod_item(conv, Top.out, item, Top.ns)
                IN  /\ conv' = r.conv
                    /\ calls' = <<[Advance(Top) EXCEPT !.out = r.out]>> \o Rest
    /\ UNCHANGED <<bindings, pod_requests, exclude_utilities, pc, outer, root_out, result>>
    /\ UNCHANGED hvars

\* convert_mod_items, the end of a call: the caller pushes the rebuilt module;
\* for the outermost call the caller is convert_items, whose loop goes on.
ConvertModReturn ==
    /\ pc = "walk"
    /\ Top.fn = "convert"
    /\ Top.items = <<>>
    /\ IF Rest = <<>>
       THEN /\ root_out' = Top.out
            /\ outer' = Tail(outer)
            /\ pc' = "items"
            /\ calls' = <<>>
       ELSE /\ calls' = <<[Head(Rest) EXCEPT
                             !.out = Append(@, [Top.itm[1] EXCEPT
                                                  !.content = Some(Top.out)])]>>
                            \o Tail(Rest)
            /\ UNCHANGED <<root_out, outer, pc>>
    /\ UNCHANGED <<bindings, pod_requests, exclude_utilities, conv, result>>
    /\ UNCHANGED hvars

\* Mutant: a declaration that is no function is passed over.
foreign_mod_item_SkipUnknown(c, i, ns) ==
    IF i.k = "Fn" THEN convert_foreign_fn(c, i, ns) ELSE [st |-> "Ok", conv |-> c]

\* convert_foreign_mod_items, the match on an item of the block.
foreign_mod_item(c, i, ns) ==
    IF i.k = "Fn" THEN convert_foreign_fn(c, i, ns)
    ELSE [st |-> "UnknownForeignItem", conv |-> c]

\* convert_foreign_mod_items, one iteration of its loop. An error is passed up
\* by every caller to convert.
ConvertForeignItem ==
    /\ pc = "walk"
    /\ Top.fn = "foreign"
    /\ Top.items # <<>>
    /\ LET r == foreign_mod_item(conv, Head(Top.items), Top.ns)
       IN  IF r.st = "Ok"
           THEN /\ conv' = r.conv
                /\ calls' = <<Advance(Top)>> \o Rest
                /\ UNCHANGED <<pc, result>>
           ELSE /\ result' = Some(IF r.st = "UnknownForeignItem"
                                  THEN Err("UnknownForeignItem")
                                  ELSE Aborted(r.st))
                /\ pc' = "done"
                /\ calls' = <<>>
                /\ UNCHANGED conv
    /\ UNCHANGED <<bindings, pod_requests, exclude_utilities, outer, root_out>>
    /\ UNCHANGED hvars

\* convert_foreign_mod_items, the end of a call.
ConvertForeignReturn ==
    /\ pc = "walk"
    /\ Top.fn = "foreign"
    /\ Top.items = <<>>
    /\ calls' = Rest
    /\ UNCHANGED <<bindings, pod_requests, exclude_utilities, conv, pc, outer,
                   root_out, result>>
    /\ UNCHANGED hvars

\* convert_items after its loop: the output is put together and returned.
Finish ==
    /\ pc = "items"
    /\ outer = <<>>
    /\ LET c1 == [conv EXCEPT
                    !.extern_c_mod_items = @ \o build_include_foreign_items(conv)]
           extern_c_mod == IF c1.extern_c_mod = None THEN get_blank_extern_c_mod
                           ELSE c1.extern_c_mod[1]
           c2 == [c1 EXCEPT
                    !.extern_c_mod = None,
                    !.extern_c_mod_items = <<>>,
                    !.bridge_items =
                        Append(@, [extern_c_mod EXCEPT
                                     !.items = @ \o c1.extern_c_mod_items])]
           bindgen_root_items ==
               Append(root_out, ItemUse(<<id_self, id_super, id_super, id_cxxbridge>>))
           bindgen_mod == ItemMod(bindings.ident,
                                  Some(<<ItemMod(id_root, Some(bindgen_root_items))>>))
           c3 == generate_final_use_statements(c2)
           c4 == [c3 EXCEPT
                    !.all_items = @ \o <<bindgen_mod,
                                         ItemMod(id_cxxbridge, Some(c3.bridge_items))>>]
       IN  /\ conv' = c4
           /\ root_out' = bindgen_root_items
           /\ result' = Some(Ok(c4.all_items, c4.additional_cpp_needs))
    /\ pc' = "done"
    /\ UNCHANGED <<bindings, pod_requests, exclude_utilities, outer, calls>>
    /\ UNCHANGED hvars

\* No handler is in use while the converter runs.
HandlerIdle ==
    /\ space = Handler_default
    /\ hstate = "alive"
    /\ heap = [a \in Addrs |-> "caller"]
    /\ loc = MinOf(Locs)
    /\ cleanups = 0
    /\ log = <<>>

\* No conversion is run while the handler is in use.
BridgeIdle ==
    /\ bindings = [ident |-> id_bindgen, content |-> None]
    /\ pod_requests = <<>>
    /\ exclude_utilities = FALSE
    /\ conv = BridgeConversion_new
    /\ pc = "idle"
    /\ outer = <<>>
    /\ root_out = <<>>
    /\ calls = <<>>
    /\ result = None

\* A BridgeConverter with its pod_requests, and the arguments of convert.
BridgeInit ==
    /\ HandlerIdle
    /\ \/ /\ bindings \in {Wrapper(t) : t \in TypeTrees}
          /\ pod_requests \in TypeRequests
          /\ exclude_utilities = TRUE
       \/ /\ bindings \in {Wrapper(t) : t \in FnTrees}
          /\ pod_requests \in FnRequests
          /\ exclude_utilities \in BOOLEAN
       \/ /\ bindings \in {Wrapper(t) : t \in AliasTrees}
          /\ pod_requests = <<>>
          /\ exclude_utilities = TRUE
       \/ /\ bindings \in OddWrappers
          /\ pod_requests \in FnRequests
          /\ exclude_utilities \in BOOLEAN
    /\ conv = BridgeConversion_new
    /\ pc = "start"
    /\ outer = <<>>
    /\ root_out = <<>>
    /\ calls = <<>>
    /\ result = None

BridgeNext ==
    \/ Convert
    \/ ConvertItems
    \/ FindItem
    \/ FindReturn
    \/ ConvertModItem
    \/ ConvertModReturn
    \/ ConvertForeignItem
    \/ ConvertForeignReturn
    \/ Finish

BridgeSpec == BridgeInit /\ [][BridgeNext]_vars

(***************************************************************************)
(* The run of a handler                                                    *)
(***************************************************************************)

HandlerInit ==
    /\ space = Handler_default
    /\ hstate = "alive"
    /\ heap = [a \in Addrs |-> "caller"]
    /\ loc \in Locs
    /\ cleanups = 0
    /\ log = <<>>
    /\ BridgeIdle

HandlerNext ==
    \/ \E v \in UniquePtrs : Populate(v)
    \/ GetPtr
    \/ Relocate
    \/ Drop

HandlerSpec == HandlerInit /\ [][HandlerNext]_vars

(***************************************************************************)
(* Properties of Part I                                                    *)
(***************************************************************************)

\* The positions of the log at which populate was called.
PopulateIdx == {i \in 1..Len(log) : log[i].op = "populate"}
\* The step being taken is a call of operation o.
IsStep(o) == Len(log') = Len(log) + 1 /\ log'[Len(log')].op = o

\* C1: the handler is created Empty; populate makes it Populated; get_ptr on a
\* Populated handler leaves it Populated with the same stored value; a Populated
\* handler leaves Populated only by being dropped, and never becomes Empty again.
C1_HandlerLifecycle ==
    /\ space = None
    /\ [][ /\ IsStep("populate") => space' # None
           /\ (IsStep("get_ptr") /\ space # None) => space' = space
           /\ (space # None /\ ~IsStep("drop")) => (space' # None /\ hstate' # "dropped")
           /\ space # None => space' # None ]_hvars

\* A Populated handler on which get_ptr has returned a pointer twice.
C1_Witness ==
    /\ space # None
    /\ hstate = "alive"
    /\ \E i, j \in 1..Len(log) :
          /\ i < j
          /\ log[i].op = "get_ptr" /\ ~log[i].ret.panic
          /\ log[j].op = "get_ptr" /\ ~log[j].ret.panic

\* Positions k, i such that populate(v), v not NULL, is at k, get_ptr calls are at
\* i and i + 1, and nothing but get_ptr calls (no relocation, no populate) lies
\* between k and i + 1.
TwoGetPtrAfterPopulate(k, i) ==
    /\ k < i /\ i + 1 <= Len(log)
    /\ log[k].op = "populate" /\ log[k].arg.ptr # NULL
    /\ \A m \in (k + 1)..(i + 1) : log[m].op = "get_ptr"

\* C2: after populate(v), v not NULL, on a handler that is not relocated, two
\* consecutive get_ptr calls return the same address: that of the value v owns.
C2_SameAddress ==
    \A k, i \in 1..Len(log) :
        TwoGetPtrAfterPopulate(k, i) =>
            /\ log[i].ret = Returned(log[k].arg.ptr)
            /\ log[i + 1].ret = log[i].ret

C2_Witness == \E k, i \in 1..Len(log) : TwoGetPtrAfterPopulate(k, i)

\* C3: dropping a handler that was never populated calls do_drop not at all;
\* dropping a Populated handler calls it exactly once; nothing else calls it.
C3_CleanupOnDrop ==
    /\ hstate # "dropped" => cleanups = 0
    /\ hstate = "dropped" => cleanups = (IF PopulateIdx = {} THEN 0 ELSE 1)

C3_Witness == hstate = "dropped" /\ PopulateIdx # {} /\ cleanups = 1

\* C4 as claimed: populate takes effect once only, so until the drop the handler
\* stores the value of the first populate, which is not released.
C4_FirstPopulateKept ==
    (PopulateIdx # {} /\ hstate # "dropped") =>
        LET first == log[MinOf(PopulateIdx)].arg
        IN  /\ space = Some(first)
            /\ first.ptr # NULL => heap[first.ptr] = "handler"

\* C4 as amended: populate is unchecked. While populate has been called once, the
\* handler stores that call's value, unreleased; every further populate takes
\* effect: the handler stores the value of the latest call and the non-null
\* values of the earlier calls have been released.
C4_PopulateUnchecked ==
    (PopulateIdx # {} /\ hstate # "dropped") =>
        LET last == MaxOf(PopulateIdx)
        IN  /\ space = Some(log[last].arg)
            /\ log[last].arg.ptr # NULL => heap[log[last].arg.ptr] = "handler"
            /\ \A j \in PopulateIdx :
                  (j < last /\ log[j].arg.ptr # NULL) => heap[log[j].arg.ptr] = "freed"

\* A second populate has been called on a handler Populated with a non-null value.
C4_Witness ==
    /\ hstate = "alive"
    /\ Cardinality(PopulateIdx) >= 2
    /\ log[MinOf(PopulateIdx)].arg.ptr # NULL

\* A get_ptr call at position i of the log with no populate before it.
GetPtrWhileEmpty(i) ==
    log[i].op = "get_ptr" /\ \A k \in PopulateIdx : k > i

\* C5: get_ptr on an Empty handler panics: no pointer is returned, the handler
\* stays Empty, and the caller is unwinding.
C5_GetPtrBeforePopulate ==
    \A i \in 1..Len(log) :
        GetPtrWhileEmpty(i) =>
            /\ log[i].ret = Panicked
            /\ space = None
            /\ hstate # "alive"

C5_Witness == \E i \in 1..Len(log) : GetPtrWhileEmpty(i)

\* A get_ptr call at position i whose latest populate before it stored NULL.
GetPtrAfterNull(i) ==
    /\ log[i].op = "get_ptr"
    /\ \E k \in PopulateIdx :
          /\ k < i /\ log[k].arg.ptr = NULL
          /\ \A m \in PopulateIdx : m < i => m <= k

\* C6: get_ptr never returns NULL or the address of an object the handler does
\* not own at that moment; after a populate of a NULL UniquePtr it panics.
C6_NullHandleFails ==
    \A i \in 1..Len(log) :
        log[i].op = "get_ptr" =>
            /\ ~log[i].ret.panic => (log[i].ret.ptr # NULL /\ log[i].live)
            /\ GetPtrAfterNull(i) => log[i].ret = Panicked

C6_Witness == \E i \in 1..Len(log) : GetPtrAfterNull(i) /\ log[i].ret.panic

(***************************************************************************)
(* Properties of Part II                                                   *)
(***************************************************************************)

\* The wrapper is of the shape bindgen makes: one module root, with content.
WellFormed ==
    /\ bindings.content # None
    /\ Len(bindings.content[1]) = 1
    /\ bindings.content[1][1].k = "Mod"
    /\ bindings.content[1][1].ident = id_root
    /\ bindings.content[1][1].content # None
\* The declaration tree of a well-formed wrapper.
RootItems == bindings.content[1][1].content[1]

RECURSIVE IngestAll(_, _, _)
\* The checker after all the declarations of a tree were ingested.
IngestAll(checker, items, ns) ==
    IF items = <<>> THEN checker
    ELSE LET item == Head(items)
         IN  IngestAll(IF item.k = "Mod"
                       THEN IF item.content = None THEN checker
                            ELSE IngestAll(checker, item.content[1],
                                           Namespace_push(ns, item.ident))
                       ELSE find_item(checker, item, ns),
                       Tail(items), ns)

\* The classification of a type computed over the whole declaration tree.
TrulyTrivial(tn) == is_pod(IngestAll(ByValueChecker_new, RootItems, Namespace_new), tn)
\* The positions of pod_requests whose type is Opaque.
OpaqueRequests == {i \in 1..Len(pod_requests) : ~TrulyTrivial(pod_requests[i])}

\* C7: when the run of a well-formed wrapper is over: if a requested type is
\* Opaque the run has failed with UnsafePODType naming a requested type that is
\* Opaque, and has returned no output; if every requested type is Trivial,
\* wherever it is declared, the run has not failed with UnsafePODType.
C7_RequestsValidated ==
    (pc = "done" /\ WellFormed) =>
        IF OpaqueRequests # {}
        THEN /\ result[1].kind = "Err"
             /\ result[1].err = "UnsafePODType"
             /\ result[1].name \in {Some(pod_requests[i]) : i \in OpaqueRequests}
             /\ result[1].out = None
        ELSE result[1].err # "UnsafePODType"

RECURSIVE HasUnknownForeignItem(_)
\* A foreign block of the tree, at whatever depth, holds a declaration that is
\* no function.
HasUnknownForeignItem(items) ==
    \E i \in 1..Len(items) :
        \/ /\ items[i].k = "ForeignMod"
           /\ \E j \in 1..Len(items[i].items) : items[i].items[j].k # "Fn"
        \/ /\ items[i].k = "Mod"
           /\ items[i].content # None
           /\ HasUnknownForeignItem(items[i].content[1])

\* Some module root of the wrapper has such a foreign block.
UnknownInWrapper ==
    /\ bindings.content # None
    /\ \E i \in 1..Len(bindings.content[1]) :
          LET m == bindings.content[1][i]
          IN  /\ m.k = "Mod"
              /\ m.ident = id_root
              /\ m.content # None
              /\ HasUnknownForeignItem(m.content[1])

\* The step visits a declaration of a foreign block that is no function.
UnknownForeignItemStep ==
    /\ pc = "walk"
    /\ Top.fn = "foreign"
    /\ Top.items # <<>>
    /\ Head(Top.items).k # "Fn"

\* C8 as stated: a foreign block with a declaration that is no function makes
\* the run of a well-formed wrapper fail with UnknownForeignItem.
C8_AlwaysUnknownForeignItem ==
    (pc = "done" /\ WellFormed /\ HasUnknownForeignItem(RootItems)) =>
        result = Some(Err("UnknownForeignItem"))

\* C8: a foreign block with a declaration that is no function, at whatever
\* depth, makes the run fail and return no output. The run fails with
\* UnknownForeignItem the moment it visits the declaration; a run that is over
\* before has failed with the UnsafePODType of a requested type or has panicked.
C8_UnknownForeignItemAborts ==
    /\ [](pc = "done" /\ UnknownInWrapper =>
            /\ result[1].kind # "Ok"
            /\ result[1].out = None
            /\ result[1].kind = "Err" =>
                  \/ result[1] = Err("UnknownForeignItem")
                  \/ /\ result[1].err = "UnsafePODType"
                     /\ \E i \in 1..Len(pod_requests) :
                           result[1].name = Some(pod_requests[i]))
    /\ [][UnknownForeignItemStep =>
            /\ result' = Some(Err("UnknownForeignItem"))
            /\ pc' = "done"]_vars

\* A run that converted a function, then met a static at the deepest namespace.
C8_Witness ==
    /\ pc = "done"
    /\ WellFormed
    /\ RootItems = Place(<<StructS, StructO>>, NsPath(MaxDepth),
                         <<ItemForeignMod(<<f_plain, ForeignItemStatic(<<"x">>)>>)>>)
    /\ result = Some(Err("UnknownForeignItem"))
    /\ \E i \in 1..Len(conv.extern_c_mod_items) :
          conv.extern_c_mod_items[i].ident = <<"f">>

\* C9: convert on a wrapper without content returns NoContent at once and
\* leaves the conversion and the walk untouched, after which nothing more is
\* done; on a wrapper with content, be it no items, it never returns NoContent.
C9_NoContent ==
    [][/\ pc # "done"
       /\ (pc = "start" /\ bindings.content = None) =>
             /\ result' = Some(Err("NoContent"))
             /\ pc' = "done"
             /\ UNCHANGED <<conv, outer, root_out, calls>>
       /\ bindings.content # None =>
             (result' = None \/ result'[1].err # "NoContent")]_vars

C9_Witness ==
    /\ pc = "done"
    /\ bindings.content = None
    /\ result = Some(Err("NoContent"))
    /\ conv = BridgeConversion_new

\* The step converts (or passes over) a function of a foreign block.
ForeignFnStep ==
    /\ pc = "walk"
    /\ Top.fn = "foreign"
    /\ Top.items # <<>>
    /\ Head(Top.items).k = "Fn"

\* A type written by value (no pointer, no reference, not the string view
\* rust_Str) that the classification of the run holds to be Opaque.
ByValueOpaque(ty) ==
    /\ ty.k = "Path"
    /\ TypeName_from_bindgen_type_path(ty) # TypeName_new(Namespace_new, id_rust_Str)
    /\ ~is_pod(conv.byvalue_checker, TypeName_from_bindgen_type_path(ty))

\* An Opaque type crosses by value in a parameter or in the return.
CrossesByValue(fun) ==
    \/ \E i \in 1..Len(fun.inputs) : ByValueOpaque(fun.inputs[i].ty)
    \/ fun.output # None /\ ByValueOpaque(fun.output[1])

\* The step appends exactly one need, a ByValueWrapper, one declaration and one
\* use statement. The name the use statement makes visible, which for a
\* function that is no method is its flat name, is the rust_name of the
\* declaration and the id of the need, and the declaration targets
\* <visible name>_up_wrapper.
ShimEmitted(fun) ==
    /\ Len(conv'.additional_cpp_needs) = Len(conv.additional_cpp_needs) + 1
    /\ ButLast(conv'.additional_cpp_needs) = conv.additional_cpp_needs
    /\ Len(conv'.extern_c_mod_items) = Len(conv.extern_c_mod_items) + 1
    /\ ButLast(conv'.extern_c_mod_items) = conv.extern_c_mod_items
    /\ Len(conv'.final_uses) = Len(conv.final_uses) + 1
    /\ ButLast(conv'.final_uses) = conv.final_uses
    /\ LET a == Last(conv'.additional_cpp_needs)
           e == Last(conv'.extern_c_mod_items)
           visible == Last(conv'.final_uses).id
       IN  /\ a.need = "ByValueWrapper"
           /\ a.id = visible
           /\ e.k = "Fn"
           /\ e.rust_name_attr = Some(visible)
           /\ e.ident = visible \o str_up_wrapper
           /\ (\A i \in 1..Len(fun.inputs) : fun.inputs[i].pat # id_this)
                 => visible = fun.ident

RECURSIVE DeclaredTypes(_)
\* The identifiers of the structs and enums declared anywhere in a tree.
DeclaredTypes(items) ==
    UNION {IF items[i].k \in {"Struct", "Enum"} THEN {items[i].ident}
           ELSE IF items[i].k = "Mod" /\ items[i].content # None
           THEN DeclaredTypes(items[i].content[1])
           ELSE {} : i \in 1..Len(items)}

\* The flat name is T_T or T_T_destructor for a type T declared in the tree.
ConstructorPattern(ident) ==
    \E ty \in DeclaredTypes(RootItems) :
        \/ ident = ty \o str_underscore \o ty
        \/ ident = ty \o str_underscore \o ty \o str_destructor

\* C11: a function of a foreign block whose flat name is the constructor pattern
\* T_T or the destructor pattern T_T_destructor of a type T declared anywhere in
\* the tree, before the function or after it, adds no declaration to the bridge,
\* no need and no use statement.
C11_ConstructorsRemoved ==
    [][(/\ ForeignFnStep
        /\ WellFormed
        /\ ConstructorPattern(Head(Top.items).ident))
          => /\ conv'.extern_c_mod_items = conv.extern_c_mod_items
             /\ conv'.additional_cpp_needs = conv.additional_cpp_needs
             /\ conv'.final_uses = conv.final_uses]_vars

\* The step rewrites an impl block.
ImplStep ==
    /\ pc = "walk"
    /\ Top.fn = "convert"
    /\ Top.items # <<>>
    /\ Head(Top.items).k = "Impl"

\* The positions of the methods named new of an impl block.
NewMethods(i) ==
    {j \in 1..Len(i.items) : i.items[j].k = "Method" /\ i.items[j].ident = id_new}

\* The k-th smallest element of a set of numbers.
Nth(S, k) == CHOOSE x \in S : Cardinality({y \in S : y <= x}) = k

\* The step appends n needs and n items to the output of the module, and the
\* k-th of them are a MakeUnique need for the type of the block and a block of
\* that type with the one method make_unique, whose parameters are those of the
\* method at position at[k] and whose return type is a handle to what that
\* method returns.
AllocationsEmitted(i, at, n) ==
    /\ Len(conv'.additional_cpp_needs) = Len(conv.additional_cpp_needs) + n
    /\ SubSeq(conv'.additional_cpp_needs, 1, Len(conv.additional_cpp_needs))
          = conv.additional_cpp_needs
    /\ Len(Head(calls').out) = Len(Top.out) + n
    /\ SubSeq(Head(calls').out, 1, Len(Top.out)) = Top.out
    /\ \A k \in 1..n :
          LET a == conv'.additional_cpp_needs[Len(conv.additional_cpp_needs) + k]
              e == Head(calls').out[Len(Top.out) + k]
              m == i.items[at[k]]
          IN  /\ a.need = "MakeUnique"
              /\ i.self_ty.k = "Path"
              /\ a.ty = TypeName_from_bindgen_type_path(i.self_ty)
              /\ e.k = "Impl"
              /\ e.self_ty = i.self_ty
              /\ Len(e.items) = 1
              /\ e.items[1].k = "Method"
              /\ e.items[1].ident = id_make_unique
              /\ e.items[1].inputs = m.inputs
              /\ m.output # None
              /\ e.items[1].output # None
              /\ e.items[1].output[1].k = "Path"
              /\ Last(e.items[1].output[1].segs).ident = id_UniquePtr
              /\ Last(e.items[1].output[1].segs).args = <<m.output[1]>>

\* C12 as stated: an impl block with a method named new yields exactly one
\* method make_unique and exactly one MakeUnique need.
C12_OneAllocationPerBlock ==
    [][(ImplStep /\ NewMethods(Head(Top.items)) # {})
          => AllocationsEmitted(Head(Top.items),
                                <<Nth(NewMethods(Head(Top.items)), 1)>>, 1)]_vars

\* The methods named new that are converted: those that declare a return type,
\* in a block whose self type is a path.
ConvertedNewMethods(i) ==
    IF i.self_ty.k = "Path"
    THEN {j \in NewMethods(i) : i.items[j].output # None}
    ELSE {}

\* C12: every method named new that declares a return type, in an impl block
\* whose self type is a path, yields exactly one method make_unique, in a block of
\* its own, and exactly one MakeUnique need, and the method returns a handle to
\* the original return type; nothing else of an impl block yields anything.
C12_OneAllocationPerNewMethod ==
    [][ImplStep
          => AllocationsEmitted(
                 Head(Top.items),
                 [k \in 1..Cardinality(ConvertedNewMethods(Head(Top.items))) |->
                     Nth(ConvertedNewMethods(Head(Top.items)), k)],
                 Cardinality(ConvertedNewMethods(Head(Top.items))))]_vars

\* A finished run that rewrote the constructor block of O, new(x: c_int) -> Self,
\* into a MakeUnique need with the one argument type and the use of
\* O_make_unique.
C12_Witness ==
    /\ pc = "done"
    /\ result # None
    /\ result[1].kind = "Ok"
    /\ \E j \in 1..Len(result[1].out[1].additional_cpp_needs) :
          LET a == result[1].out[1].additional_cpp_needs[j]
          IN  /\ a.need = "MakeUnique"
              /\ a.ty = TypeName_new(Namespace_new, <<"O">>)
              /\ a.args = <<TypeName_new(Namespace_new, id_c_int)>>
    /\ \E j \in 1..Len(conv.final_uses) :
          conv.final_uses[j].id = <<"O">> \o str_underscore \o id_make_unique

\* C13: the resolution of a typedef always ends, also for typedefs that alias
\* each other in a cycle: no run ends in the stack overflow of a recursion
\* without bound.
C13_TypedefResolutionTerminates ==
    pc = "done" => result[1].kind # "Overflow"

\* The step converts a function of a foreign block and emits its declaration.
ForeignFnEmitted ==
    /\ ForeignFnStep
    /\ Len(conv'.extern_c_mod_items) = Len(conv.extern_c_mod_items) + 1

RECURSIVE PointersLowered(_, _)
\* The type to is the type from with every pointer, at whatever depth, made a
\* reference of the same mutability, down to the element that is no pointer,
\* which keeps its name.
PointersLowered(from, to) ==
    IF from.k = "Ptr"
    THEN /\ to.k = "Reference"
         /\ to.mut = from.mut
         /\ PointersLowered(from.elem[1], to.elem[1])
    ELSE /\ to.k # "Ptr"
         /\ from.k = "Path" => /\ to.k = "Path"
                               /\ Last(to.segs).ident = Last(from.segs).ident

\* C14: in the declaration emitted for a function, a parameter or return type
\* that is a pointer of mutability M to E is a reference of the same mutability
\* M to the converted E, and so on for the pointers nested in E.
C14_PointersBecomeReferences ==
    [][ForeignFnEmitted =>
         LET fun == Head(Top.items)
             e == Last(conv'.extern_c_mod_items)
         IN  /\ Len(e.inputs) = Len(fun.inputs)
             /\ \A i \in 1..Len(fun.inputs) :
                   fun.inputs[i].ty.k = "Ptr"
                      => PointersLowered(fun.inputs[i].ty, e.inputs[i].ty)
             /\ (fun.output # None /\ fun.output[1].k = "Ptr")
                   => /\ e.output # None
                      /\ PointersLowered(fun.output[1], e.output[1])]_vars

\* A finished run whose bridge declares a function taking &mut &S and &O and
\* returning &mut &S, made from *mut *const S, *const O and *mut *const S.
C14_Witness ==
    /\ pc = "done"
    /\ result # None
    /\ result[1].kind = "Ok"
    /\ \E i \in 1..Len(conv.bridge_items) :
          /\ conv.bridge_items[i].k = "ForeignMod"
          /\ \E j \in 1..Len(conv.bridge_items[i].items) :
                LET e == conv.bridge_items[i].items[j]
                IN  /\ e.k = "Fn"
                    /\ Len(e.inputs) = 2
                    /\ e.inputs[1].ty = RefT(TRUE, RefT(FALSE, Plain(<<<<"S">>>>)))
                    /\ e.inputs[2].ty = RefT(FALSE, Plain(<<<<"O">>>>))
                    /\ e.output = Some(RefT(TRUE, RefT(FALSE, Plain(<<<<"S">>>>))))

RECURSIVE ReexportsAt(_, _)
\* The identifiers that the items re-export from cxxbridge at the node path
\* below them, in the order of the items.
ReexportsAt(items, path) ==
    IF items = <<>> THEN <<>>
    ELSE LET it == Head(items)
             here == IF path = <<>>
                     THEN IF it.k = "Use" /\ Len(it.path) = 2 /\ it.path[1] = id_cxxbridge
                          THEN <<it.path[2]>>
                          ELSE <<>>
                     ELSE IF it.k = "Mod" /\ it.ident = path[1] /\ it.content # None
                          THEN ReexportsAt(it.content[1], Tail(path))
                          ELSE <<>>
         IN  here \o ReexportsAt(Tail(items), path)

\* The nodes a tree of namespaces can have: the paths of namespace names.
NamespaceNodes ==
    UNION {[1..n -> {SegNames[i] : i \in 1..Len(SegNames)}] : n \in 0..MaxDepth}

\* The positions of the emission list recorded under a namespace.
RecordedAt(path) == {i \in 1..Len(conv.final_uses) : conv.final_uses[i].ns = path}

\* C15: in the output of a run, every node of the re-export tree re-exports the
\* identifiers recorded under the namespace of the node, each once for each time
\* it was recorded, and no other identifier: nothing is re-exported at a
\* parent, child or sibling of its namespace.
C15_ReexportsAtOwnNode ==
    (pc = "done" /\ result[1].kind = "Ok") =>
        \A p \in NamespaceNodes :
            LET got == ReexportsAt(result[1].out[1].items, p)
            IN  /\ Len(got) = Cardinality(RecordedAt(p))
                /\ {got[i] : i \in 1..Len(got)}
                      = {conv.final_uses[i].id : i \in RecordedAt(p)}

\* A finished run with one identifier recorded under a and another under a::b,
\* the first re-exported in module a, the second in its module b.
C15_Witness ==
    /\ pc = "done"
    /\ result # None
    /\ result[1].kind = "Ok"
    /\ \E g, f \in {<<"S">>, <<"O">>, <<"E">>, <<"W">>} :
          /\ g # f
          /\ {conv.final_uses[i].id : i \in RecordedAt(NsPath(1))} = {g}
          /\ {conv.final_uses[i].id : i \in RecordedAt(NsPath(2))} = {f}
          /\ ReexportsAt(result[1].out[1].items, NsPath(1)) = <<g>>
          /\ ReexportsAt(result[1].out[1].items, NsPath(2)) = <<f>>
          /\ ReexportsAt(result[1].out[1].items, Namespace_new) = <<>>

\* The classification pass is under way or about to start: a call of
\* find_nested_pod_types is in progress, or the loop of convert_items has a
\* module still to visit.
Classifying ==
    \/ pc = "items" /\ outer # <<>>
    \/ pc = "walk" /\ \E i \in 1..Len(calls) : calls[i].fn = "find"

\* No step of the rewrite pass has been taken: but for the checker, the
\* conversion is as convert made it and no item was put out.
NothingRewritten ==
    /\ root_out = <<>>
    /\ conv = [(IF exclude_utilities THEN BridgeConversion_new
                ELSE generate_utilities(BridgeConversion_new))
                  EXCEPT !.byvalue_checker = conv.byvalue_checker]

\* The step is one of the rewrite pass or of what comes after it.
RewriteStep ==
    \/ pc = "walk" /\ Top.fn \in {"convert", "foreign"}
    \/ pc = "items" /\ outer = <<>>

\* C16: in the run of a well-formed wrapper the two passes are strictly
\* ordered. While a declaration is being ingested, or is still to be, nothing
\* has been rewritten, and the calls in progress are of one pass only; a step of
\* the rewrite pass never changes the classification map and is never followed
\* by a step of the classification pass.
C16_PassesOrdered ==
    /\ [](WellFormed =>
            /\ Classifying => NothingRewritten
            /\ pc = "walk" =>
                  \/ \A i \in 1..Len(calls) : calls[i].fn = "find"
                  \/ \A i \in 1..Len(calls) : calls[i].fn # "find")
    /\ [][(WellFormed /\ RewriteStep) =>
             /\ conv'.byvalue_checker = conv.byvalue_checker
             /\ ~Classifying']_vars

\* The rewrite pass of a well-formed wrapper at a foreign block, after it made
\* the alias of a type, with a type of a nested namespace in the classification
\* map.
C16_Witness ==
    /\ WellFormed
    /\ pc = "walk"
    /\ Top.fn = "foreign"
    /\ Top.items # <<>>
    /\ conv.types_found # <<>>
    /\ \E i \in 1..Len(RootItems) : RootItems[i].k = "Mod"
    /\ TypeName_new(Namespace_new, <<"O">>) \in DOMAIN conv.byvalue_checker

\* The step is the end of a call of find_nested_pod_types, where the requests
\* are validated.
ValidationStep ==
    /\ pc = "walk"
    /\ Top.fn = "find"
    /\ Top.items = <<>>

\* C17: in the run of a well-formed wrapper the requests are validated once,
\* at the end of the outermost call of find_nested_pod_types, when every struct,
\* enum and typedef of the whole tree has been ingested.
C17_ValidatedOnceAtEnd ==
    [][(WellFormed /\ ValidationStep) =>
          /\ Rest = <<>>
          /\ conv.byvalue_checker
                = IngestAll(ByValueChecker_new, RootItems, Namespace_new)]_vars

\* The function is a method: it has a parameter called this.
IsMethod(fun) == \E i \in 1..Len(fun.inputs) : fun.inputs[i].pat = id_this

\* The visible name of a method by the rule of the prefix: the flat name
\* without T_ for the first type T found so far that the flat name starts with
\* T_ of; the flat name itself if there is no such type.
ShortMethodName(types_found, name) ==
    LET hits == {i \in 1..Len(types_found) :
                    /\ StartsWith(name, types_found[i] \o str_underscore)
                    /\ Len(name) > Len(types_found[i]) + 1}
    IN  IF hits = {} THEN name
        ELSE SubSeq(name, Len(types_found[MinOf(hits)]) + 2, Len(name))

\* C18: a method that is no constructor or destructor of a type found so far
\* is converted, and is visible under its flat name without the prefix T_ of the
\* first type T found so far with such a prefix; a type whose name the flat name
\* only starts with, no separator following, leaves the name as it is and makes
\* nothing fail.
C18_MethodPrefixStripped ==
    [][(/\ ForeignFnStep
        /\ WellFormed
        /\ IsMethod(Head(Top.items))
        /\ ~is_constructor_or_destructor(conv.types_found, Head(Top.items).ident))
          => /\ result' = None
             /\ ForeignFnEmitted
             /\ LET e == Last(conv'.extern_c_mod_items)
                    visible == IF e.rust_name_attr # None THEN e.rust_name_attr[1]
                               ELSE e.ident
                IN  visible = ShortMethodName(conv.types_found, Head(Top.items).ident)]_vars

\* The step emits the declaration of the function as it is: no need is
\* appended, the declaration carries no rust_name and is named as the function
\* is visible, which for a function that is no method is its flat name and for
\* a method the end of it.
EmittedUnwrapped(fun) ==
    /\ conv'.additional_cpp_needs = conv.additional_cpp_needs
    /\ ForeignFnEmitted
    /\ ButLast(conv'.extern_c_mod_items) = conv.extern_c_mod_items
    /\ LET e == Last(conv'.extern_c_mod_items)
       IN  /\ e.k = "Fn"
           /\ e.rust_name_attr = None
           /\ Len(e.inputs) = Len(fun.inputs)
           /\ IF IsMethod(fun)
              THEN /\ Len(e.ident) <= Len(fun.ident)
                   /\ e.ident = SubSeq(fun.ident, Len(fun.ident) - Len(e.ident) + 1,
                                       Len(fun.ident))
              ELSE e.ident = fun.ident

\* A function without a return type is declared without one, and a need
\* appended for it holds no conversion of a return value.
VoidStaysVoid(fun) ==
    (ForeignFnEmitted /\ fun.output = None) =>
        /\ Last(conv'.extern_c_mod_items).output = None
        /\ Len(conv'.additional_cpp_needs) > Len(conv.additional_cpp_needs)
              => Last(conv'.additional_cpp_needs).return_conversion = None

RECURSIVE TreeTypedefs(_, _, _)
\* The typedefs declared anywhere in a tree, each with its target, added to
\* map.
TreeTypedefs(map, items, ns) ==
    IF items = <<>> THEN map
    ELSE LET item == Head(items)
             next == CASE item.k = "Type" /\ ~should_ignore_item_type(item) ->
                            (TypeName_new(ns, item.ident)
                                 :> analyze_typedef_target(item.ty)) @@ map
                       [] item.k = "Mod" /\ item.content # None ->
                            TreeTypedefs(map, item.content[1],
                                         Namespace_push(ns, item.ident))
                       [] OTHER -> map
         IN  TreeTypedefs(next, Tail(items), ns)

\* What the alias chain of a type written in a signature ends at, over the
\* typedefs of the whole tree: Some(D) for a typedef whose chain ends at the
\* type D that is no alias.
TerminalType(ty) ==
    IF ty.k # "Path" THEN [o |-> "None", tn |-> <<>>]
    ELSE resolve_typedef(TreeTypedefs(<<>>, RootItems, Namespace_new),
                         TypeName_from_bindgen_type_path(ty), {})

\* The type names the type D, by value or in a handle.
Names(ty, D) ==
    /\ ty.k = "Path"
    /\ \/ Last(ty.segs).ident = D.id
       \/ /\ Last(ty.segs).ident = id_UniquePtr
          /\ Len(Last(ty.segs).args) = 1
          /\ Last(ty.segs).args[1].k = "Path"
          /\ Last(Last(ty.segs).args[1].segs).ident = D.id

\* C20: in the declaration emitted for a function, a parameter or return type
\* that is a typedef of the tree whose alias chain ends at a type D is D, not the
\* typedef and not an alias between them, wherever the typedefs are declared,
\* before the function or after it.
C20_TypedefsResolved ==
    [][(ForeignFnEmitted /\ WellFormed) =>
         LET fun == Head(Top.items)
             e == Last(conv'.extern_c_mod_items)
         IN  /\ \A i \in 1..Len(fun.inputs) :
                   TerminalType(fun.inputs[i].ty).o = "Some"
                      => Names(e.inputs[i].ty, TerminalType(fun.inputs[i].ty).tn[1])
             /\ (fun.output # None /\ TerminalType(fun.output[1]).o = "Some")
                   => /\ e.output # None
                      /\ Names(e.output[1], TerminalType(fun.output[1]).tn[1])]_vars

\* The number of MakeStringConstructor requests of a list of needs.
StringConstructorNeeds(needs) ==
    Cardinality({i \in 1..Len(needs) : needs[i].need = "MakeStringConstructor"})

\* C21: at every moment of a run the list of needs holds no
\* MakeStringConstructor request if the utilities are excluded and at most one
\* otherwise, exactly one from the moment convert_items has begun; and the list
\* a run returns holds exactly one if the utilities are not excluded and none if
\* they are, whatever was converted.
C21_OneStringConstructorNeed ==
    /\ StringConstructorNeeds(conv.additional_cpp_needs)
          = IF exclude_utilities \/ pc = "start" \/ bindings.content = None
            THEN 0 ELSE 1
    /\ (pc = "done" /\ result[1].kind = "Ok") =>
          StringConstructorNeeds(result[1].out[1].additional_cpp_needs)
             = IF exclude_utilities THEN 0 ELSE 1

\* A finished run with the utilities, a foreign block in the deepest namespace
\* and two functions that got a wrapper: one MakeStringConstructor request among
\* three needs.
C21_Witness ==
    /\ pc = "done"
    /\ result # None
    /\ result[1].kind = "Ok"
    /\ ~exclude_utilities
    /\ Len(result[1].out[1].additional_cpp_needs) = 3
    /\ StringConstructorNeeds(result[1].out[1].additional_cpp_needs) = 1
    /\ \E i \in 1..Len(conv.final_uses) : conv.final_uses[i].ns = NsPath(MaxDepth)

\* The step rewrites a struct or an enum.
TypeStep ==
    /\ pc = "walk"
    /\ Top.fn = "convert"
    /\ Top.items # <<>>
    /\ Head(Top.items).k \in {"Struct", "Enum"}

\* C22: in the run of a well-formed wrapper the step that rewrites a struct or
\* an enum appends one ExternType binding for the type, at its path below
\* bindgen::root, whose kind is the classification of the type over the whole
\* tree, and puts the type out: an enum, which is Trivial, and a Trivial struct
\* as they are, an Opaque struct with the placeholder for its fields and the
\* packed representation.
C22_BindingKindIsClassification ==
    [][(TypeStep /\ WellFormed) =>
         LET item == Head(Top.items)
             trivial == TrulyTrivial(TypeName_new(Top.ns, item.ident))
             binding == Last(conv'.all_items)
             put == Last(Head(calls').out)
         IN  /\ Len(conv'.all_items) = Len(conv.all_items) + 1
             /\ ButLast(conv'.all_items) = conv.all_items
             /\ binding.k = "ExternType"
             /\ binding.path = <<id_bindgen, id_root>> \o Top.ns \o <<item.ident>>
             /\ binding.kind = IF trivial THEN "Trivial" ELSE "Opaque"
             /\ item.k = "Enum" => trivial
             /\ Len(Head(calls').out) = Len(Top.out) + 1
             /\ ButLast(Head(calls').out) = Top.out
             /\ IF trivial THEN put = item
                ELSE /\ put.k = "Struct"
                     /\ put.ident = item.ident
                     /\ put.fields = <<[k |-> "Array"]>>
                     /\ put.fields # item.fields
                     /\ put.attrs = <<"repr(C, packed)">>]_vars

\* A finished run that put the Opaque struct O of the root out with the
\* placeholder and bound it as Opaque, and bound a type of a nested namespace as
\* Trivial.
C22_Witness ==
    /\ pc = "done"
    /\ result # None
    /\ result[1].kind = "Ok"
    /\ \E i \in 1..Len(root_out) :
          /\ root_out[i].k = "Struct"
          /\ root_out[i].ident = <<"O">>
          /\ root_out[i].fields = <<[k |-> "Array"]>>
    /\ \E i, j \in 1..Len(conv.all_items) :
          /\ conv.all_items[i].k = "ExternType"
          /\ conv.all_items[i].kind = "Opaque"
          /\ conv.all_items[i].path = <<id_bindgen, id_root, <<"O">>>>
          /\ conv.all_items[j].k = "ExternType"
          /\ conv.all_items[j].kind = "Trivial"
          /\ Len(conv.all_items[j].path) > 3

\* C23: a step that passes a function over as a constructor or destructor
\* records no emission. A step that converts a function records one emission,
\* of the name the function is visible under and under the namespace of the
\* block, if the function is no method or a wrapper was needed for it, and none
\* if it is a method that needed no wrapper.
C23_EmissionRecorded ==
    [][(ForeignFnStep /\ result' = None) =>
         LET fun == Head(Top.items)
         IN  IF is_constructor_or_destructor(conv.types_found, fun.ident)
             THEN /\ conv'.final_uses = conv.final_uses
                  /\ ~ForeignFnEmitted
             ELSE /\ ForeignFnEmitted
                  /\ LET e == Last(conv'.extern_c_mod_items)
                         wrapped == Len(conv'.additional_cpp_needs)
                                       > Len(conv.additional_cpp_needs)
                         visible == IF e.rust_name_attr # None
                                    THEN e.rust_name_attr[1]
                                    ELSE e.ident
                     IN  /\ wrapped <=> e.rust_name_attr # None
                         /\ IF ~IsMethod(fun) \/ wrapped
                            THEN conv'.final_uses
                                    = Append(conv.final_uses,
                                             [ns |-> Top.ns, id |-> visible])
                            ELSE conv'.final_uses = conv.final_uses]_vars

\* A finished run that converted the method O_g of a block in a namespace
\* without a wrapper, declared it as g and recorded no emission for it.
C23_Witness ==
    /\ pc = "done"
    /\ result # None
    /\ result[1].kind = "Ok"
    /\ \A i \in 1..Len(conv.final_uses) : conv.final_uses[i].id # <<"g">>
    /\ \E i \in 1..Len(conv.bridge_items) :
          /\ conv.bridge_items[i].k = "ForeignMod"
          /\ \E j \in 1..Len(conv.bridge_items[i].items) :
                LET e == conv.bridge_items[i].items[j]
                IN  /\ e.k = "Fn"
                    /\ e.ident = <<"g">>
                    /\ e.rust_name_attr = None
                    /\ e.namespace_attr # None

====
